---- MODULE Spec2Model ----
(***************************************************************************)
(* Verification model of cmd/batch-rotate.go (batch key rotation job) and  *)
(* cmd/bucket-handlers.go (multi-delete, fan-out upload, PutBucket).       *)
(*                                                                         *)
(* SpecRotate : BatchJobKeyRotateV1.Start / KeyRotate, one run of a job.   *)
(* SpecResume : the same, with the process being killed during the walk    *)
(*              and the job resumed from its checkpoint.                   *)
(* SpecDelete : DeleteMultipleObjectsHandler.                              *)
(* SpecFanOut : the fan-out part of PostPolicyBucketHandler.               *)
(* SpecPutBucket : PutBucketHandler of the deployments of a federation.    *)
(***************************************************************************)
EXTENDS Integers, Sequences, FiniteSets, TLC

\* ------------------------------------------------------------------ bounds
\* walk entries (object versions) in the bucket, in walk order
NumObjects == 2
\* largest value of _MINIO_BATCH_KEYROTATION_WORKERS that is tried
MaxWorkers == 2
\* largest retry.attempts of a job definition that is tried
MaxAttempts == 1
\* how many times the process is killed while a run is in progress
MaxKills == 1

\* --------------------------------------------------------- program constants
batchKeyRotateJobDefaultRetries == 3

VARIABLES
    \* ---- job definition (BatchJobKeyRotateV1), immutable
    encType,        \* r.Encryption.Type: "sse-s3" | "sse-kms"
    attemptsCfg,    \* r.Flags.Retry.Attempts
    workerSize,     \* size given to workers.New
    \* ---- the bucket
    name,           \* name[o]: the object name of walk entry o
    enc,            \* enc[o]: "none" | "s3" | "kms", as stored in the object's metadata
    passes,         \* passes[o]: the WalkFilter (skip) keeps entry o
    rotated,        \* rotated[o]: a KeyRotate of o ran rotateKey and CopyObject successfully
    nsLock,         \* nsLock[n]: entry holding the namespace lock on name n, 0 when free
    \* ---- the persisted checkpoint (batch-rotate.bin): <<>> or <<batchJobInfo>>
    ckpt,
    \* ---- Start's locals
    pc,             \* "init" | "walk" | "finalized" | "done" | "error"
    ri,             \* batchJobInfo in memory
    lastObject,     \* resume cursor handed to Walk as WalkMarker
    retryAttempts,  \* line 436
    next,           \* position in the results channel of the next entry to receive
    task,           \* task[o]: the goroutine spawned for entry o
    notified,       \* bodies handed to Notify: <<>> or <<batchJobInfo>>
    kills,          \* how often the process was killed
    tried,          \* the entries KeyRotate was called for in this run
    \* ---- DeleteMultipleObjectsHandler
    dHdr,           \* the request's headers: [md5, length]
    dReq,           \* deleteObjectsReq.Objects after trimLeadingSlash
    lockEnabled,    \* hasLockEnabled: the bucket has object locking
    dpc,            \* "start" | "parse" | "loop" | "bulk" | "done"
    dSeen,          \* what authorization and retention answered, per entry checked
    dCtx,           \* the context in use: "request" | "background"
    dGone,          \* "" or the stage at which the client disconnected
    dCalled,        \* DeleteObjects was called
    dIdx,           \* index of the loop of lines 512-597
    deleteResults,  \* one slot per request entry
    objectsToDelete,\* the dedup map, as a set of [obj, idx]
    deleteList,     \* toNames(objectsToDelete), in map iteration order
    dErrs,          \* errs returned by DeleteObjects, aligned with deleteList
    dResp,          \* what is written to the client
    tierEmpty,      \* globalTierConfigMgr.Empty()
    oss,            \* per request entry: an objSweeper was made (FALSE is nil)
    swept,          \* indexes of the entries whose Sweep() was called
    \* ---- PostPolicyBucketHandler, fan-out
    fpc,            \* "start" | "batch" | "call" | "write" | "done" | "error" | "panic"
    fN,             \* len(fanOutEntries) of the request; entries are numbered 1 .. fN
    fSize,          \* number of bytes the input stream holds
    fPos,           \* number of bytes read from the input stream so far
    fW,             \* concurrentSize
    fBuf,           \* n, the number of bytes copied into buf
    fNext,          \* the first entry still in fanOutEntries
    fDone,          \* done, line 1293
    fBatch,         \* the entries handed to the fanOutPutObject call in progress
    fTask,          \* fTask[e]: "todo" | "running" | "ok" | "failed"
    fStore,         \* fStore[e]: the bytes written to the object of entry e, or NoBytes
    fanOutResp,     \* the response records collected
    eventArgsList,  \* the events collected
    fI,             \* index of the loop of lines 1335-1357
    fOut,           \* the records written to the client
    fEvents,        \* the events sent
    fCalls,         \* the batches handed to fanOutPutObject, in call order
    fCtxDone,       \* the request's context is cancelled
    \* ---- PutBucketHandler in a federation
    dnsOn,          \* globalDNSConfig != nil
    dnsRec,         \* hosts of the DNS record of the bucket name, {} when there is none
    bIPs,           \* bIPs[d]: globalDomainIPs of deployment d
    bLocal,         \* bLocal[d]: the bucket exists in deployment d
    bpc,            \* bpc[d]: "idle" | "get" | "make" | "put" | "done"
    bSr,            \* bSr[d]: what globalDNSConfig.Get returned to the request
    bMade,          \* bMade[d]: the request's MakeBucket succeeded
    bResp,          \* bResp[d]: the response written
    bEvent,         \* bEvent[d]: BucketCreated events sent
    \* ---- initFederatorBackend
    fedpc,          \* "start" | "put" | "delete" | "done" | "aborted"
    fedLocal,       \* names of the local buckets (buckets)
    fedDNS,         \* fedDNS[b]: hosts of the DNS record of b when the pass begins, {} for none
    fedIPs,         \* globalDomainIPs
    dnsBucketsNil,  \* dns.List returned a nil map (line 97)
    domainMissing,  \* dns.List returned dns.ErrDomainMissing (line 109)
    bucketsSet,
    bucketsToBeUpdated,
    bucketsInConflict,
    fedPuts,        \* the buckets dns.Put was issued for
    fedPutFailed,   \* the buckets whose dns.Put returned an error
    fedLogged,      \* the buckets a conflict was logged for
    fedDeletes,     \* the buckets dns.Delete was issued for
    \* ---- toStorageErr
    tspc,           \* "in" | "out" | "back"
    tsIn,           \* the error that is converted
    tsOut,          \* toStorageErr(tsIn)
    tsBack,         \* toStorageErr of the error that carries the text of tsOut
    \* ---- NSScanner
    scpc,           \* "call" | "bool" | "decode" | "select" | "final" | "returned"
    scCtxDone,      \* ctx is cancelled
    scN,            \* updates decoded
    scSent,         \* updates sent on updates
    scClosed,       \* times updates was closed
    scLate,         \* an update was sent on the closed updates
    scRet,          \* the cache and the error returned
    \* ---- PostPolicyBucketHandler, encryption
    ppc,            \* "sse" | "key" | "write" | "done"
    pForm,          \* the encryption the form fields ask for
    pHdrSSEC,       \* crypto.SSEC.IsRequested(r.Header)
    pHdrCopy,       \* crypto.SSECopy.IsRequested(r.Header)
    pBucketSSE,     \* the bucket's encryption configuration
    pRepl,          \* isReplicationEnabled(ctx, bucket)
    pEntries,       \* len(fanOutEntries)
    pKind,          \* kind, line 1213
    pWrites,        \* PutObject and fanOutPutObject calls made
    pResp,          \* the answer
    \* ---- the walk filter of the rotation job
    fltpc,          \* "walk" | "done"
    fltFilter,      \* r.Flags.Filter
    fltInfo,        \* the FileInfo the filter is given
    fltKept,        \* what the filter returned
    \* ---- one call of KeyRotate (batch-rotate.go)
    krpc,           \* "idle", "walked", "locked", "done"
    krEnc,          \* r.Encryption: Type, Key, Context and the kmsContext field
    krKMS,          \* GlobalKMS != nil
    krWalk,         \* objInfo, the ObjectInfo the walk produced
    krStore,        \* the object version as it is in the store now
    krObj,          \* obj, the ObjectInfo re-fetched under the lock (line 281)
    krCall,         \* the arguments rotateKey was called with (line 304)
    krLocked,       \* the namespace lock of the object is held
    krRet           \* what KeyRotate returned

rotVars == <<encType, attemptsCfg, workerSize, name, enc, passes, rotated, nsLock, ckpt,
             pc, ri, lastObject, retryAttempts, next, task, notified, kills, tried>>

delVars == <<dHdr, dReq, lockEnabled, dpc, dSeen, dCtx, dGone, dCalled, dIdx,
             deleteResults, objectsToDelete, deleteList, dErrs, dResp, tierEmpty, oss, swept>>

fanVars == <<fpc, fN, fSize, fPos, fW, fBuf, fNext, fDone, fBatch, fTask, fStore, fanOutResp,
             eventArgsList, fI, fOut, fEvents, fCalls, fCtxDone>>

bktVars == <<dnsOn, dnsRec, bIPs, bLocal, bpc, bSr, bMade, bResp, bEvent>>

fedVars == <<fedpc, fedLocal, fedDNS, fedIPs, dnsBucketsNil, domainMissing, bucketsSet,
             bucketsToBeUpdated, bucketsInConflict, fedPuts, fedPutFailed, fedLogged,
             fedDeletes>>

\* the variables of the remaining operations
errVars == <<tspc, tsIn, tsOut, tsBack>>

scanVars == <<scpc, scCtxDone, scN, scSent, scClosed, scLate, scRet>>

postVars == <<ppc, pForm, pHdrSSEC, pHdrCopy, pBucketSSE, pRepl, pEntries, pKind, pWrites,
              pResp>>

fltVars == <<fltpc, fltFilter, fltInfo, fltKept>>

krVars == <<krpc, krEnc, krKMS, krWalk, krStore, krObj, krCall, krLocked, krRet>>

restVars == <<fedVars, errVars, scanVars, postVars, fltVars, krVars>>

othersOfFed == <<rotVars, delVars, fanVars, bktVars, errVars, scanVars, postVars, fltVars, krVars>>

othersOfErr == <<rotVars, delVars, fanVars, bktVars, fedVars, scanVars, postVars, fltVars, krVars>>

othersOfScan == <<rotVars, delVars, fanVars, bktVars, fedVars, errVars, postVars, fltVars, krVars>>

othersOfFlt == <<rotVars, delVars, fanVars, bktVars, fedVars, errVars, scanVars, postVars, krVars>>

othersOfKr == <<rotVars, delVars, fanVars, bktVars, fedVars, errVars, scanVars, postVars,
                fltVars>>

othersOfPost == <<rotVars, delVars, fanVars, bktVars, fedVars, errVars, scanVars, fltVars, krVars>>

vars == <<rotVars, delVars, fanVars, bktVars, restVars>>

Entries == 1 .. NumObjects

\* Walk returns every version of an object, so consecutive entries may carry
\* one object name.  Names are numbered in the order in which Walk lists them.
Names == 1 .. NumObjects

Name(o) == name[o]

\* the zero value of batchJobInfo; Object = 0 stands for the empty string
ZeroInfo == [Object |-> 0, ObjectsFailed |-> 0, RetryAttempts |-> 0,
             Complete |-> FALSE, Failed |-> FALSE, LastUpdate |-> FALSE]

IdleTask == [st |-> "idle", attempts |-> 0]

\* ------------------------------------------------------------ job set-up

\* line 425: the pool size is the environment value, or GOMAXPROCS/2 when the
\* variable is unset (env = -1)
WorkerSize(env, procs) == IF env = -1 THEN procs \div 2 ELSE env

\* batchJobInfo.load: the prior checkpoint when there is one; otherwise a new
\* record whose RetryAttempts is the job's retry.attempts, or the default
load(ck, att) ==
    IF Len(ck) = 0
    THEN [ZeroInfo EXCEPT !.RetryAttempts =
              IF att > 0 THEN att ELSE batchKeyRotateJobDefaultRetries]
    ELSE ck[1]

\* ObjectLayer.Walk with WalkMarker and WalkFilter: the entries the filter
\* keeps, from the marker's name onwards, in walk order
Walked(o) == passes[o] /\ Name(o) >= lastObject

Pending == { o \in Entries : o >= next /\ Walked(o) }

HasResult == Pending # {}

NextResult == CHOOSE o \in Pending : \A p \in Pending : o <= p

InFlight == { o \in Entries : task[o].st # "idle" }

\* lines 451-455: the dispatch loop drops entries that are not SSE-S3/SSE-KMS
Encrypted(o) == enc[o] \in {"s3", "kms"}

TakeNoCeiling == TRUE

\* wk.Take(): blocks while the pool holds workerSize running tasks
TakeReady == Cardinality(InFlight) < workerSize

WaitNoBarrier == TRUE

\* wk.Wait(): returns when every task has given its slot back
WaitDone == InFlight = {}

\* ------------------------------------------------------------ KeyRotate

RefusedOnlyPlain(o) == ~Encrypted(o)

\* lines 256-263: objects that are not encrypted, and SSE-KMS objects of an
\* sse-s3 job, are refused before the lock is taken
Refused(o) ==
    \/ ~Encrypted(o)
    \/ enc[o] = "kms" /\ encType = "sse-s3"

MayAttemptBelow(o) == task[o].attempts < retryAttempts

\* line 459: the condition of the retry loop
MayAttempt(o) == task[o].attempts <= retryAttempts

LockAlwaysGranted(n) == TRUE

\* lock.GetLock: granted only while nobody holds the lock on the name
LockFree(n) == nsLock[n] = 0

\* the encryption an object has once rotateKey and CopyObject succeeded
Target(o) == IF encType = "sse-kms" THEN "kms" ELSE enc[o]

\* ------------------------------------------------------------ progress

\* batchJobInfo.trackCurrentBucketObject: the cursor becomes the object just
\* attempted and a failed attempt is counted
trackCurrentBucketObject(r, n, success) ==
    [r EXCEPT !.Object = n,
              !.ObjectsFailed = IF success THEN @ ELSE @ + 1]

\* batchJobInfo.updateAfter(duration): persists when duration has elapsed
\* since LastUpdate; a zero LastUpdate is always long ago
Elapsed(r, duration) ==
    IF duration = 0 \/ ~r.LastUpdate THEN {TRUE} ELSE {TRUE, FALSE}

Stamp(r) == [r EXCEPT !.LastUpdate = TRUE]

\* lines 483-484
FinalComplete(r) == r.ObjectsFailed = 0

FinalFailedOffByOne(r) == r.ObjectsFailed > 1

FinalFailed(r) == r.ObjectsFailed > 0

\* ============================================ DeleteMultipleObjectsHandler
\* largest number of entries of a multi-delete request that is tried
MaxReq == 3

\* maxDeleteList, scaled: the longest list the handler accepts
maxDeleteList == MaxReq - 1

\* line 440
maxBodySize == 204800000

\* an object and a directory object
ObjNames == {"a", "d/"}

nullVersionID == "null"

\* version IDs of a request: none, the null version, a UUID, a string that is no UUID
VersionIDs == {"", nullVersionID, "u", "x"}

\* values of the Content-Length header; -1 is a body of unknown length
ContentLengths == {-1, 0, 1, maxBodySize + 1}

NoHeaders == [md5 |-> FALSE, length |-> 0]

ObjectV == [ObjectName : ObjNames, VersionID : VersionIDs]

\* zero values of DeletedObject and DeleteError
NoDeleted == [ObjectName |-> "", VersionID |-> ""]

NoError == [Code |-> "", Key |-> "", VersionID |-> ""]

NoResponse == [code |-> "", Deleted |-> <<>>, Errors |-> <<>>]

\* ================================================ PostPolicyBucketHandler
\* largest number of fan-out entries of a request that is tried
MaxFanOut == 3

\* the widest batch (line 1282, scaled) that is tried
MaxWidth == 2

\* line 1274
maxFanOutSize == 16777216

FanEntries == 1 .. MaxFanOut

\* a range of bytes of the input stream; len 0 is no byte
NoBytes == [from |-> 0, len |-> 0]

\* the handler is not running
FanIdle ==
    /\ fpc = "idle"
    /\ fN = 0
    /\ fSize = 0
    /\ fPos = 0
    /\ fW = 0
    /\ fBuf = 0
    /\ fNext = 1
    /\ fDone = FALSE
    /\ fBatch = <<>>
    /\ fTask = [e \in FanEntries |-> "todo"]
    /\ fStore = [e \in FanEntries |-> NoBytes]
    /\ fanOutResp = <<>>
    /\ eventArgsList = <<>>
    /\ fI = 0
    /\ fOut = <<>>
    /\ fEvents = <<>>
    /\ fCalls = <<>>
    /\ fCtxDone = FALSE

\* ======================================================= PutBucketHandler
\* deployments of the federation
NumDeployments == 2

Deployments == 1 .. NumDeployments

Hosts == {"h1", "h2"}

\* no request is running
BktIdle ==
    /\ dnsOn = FALSE
    /\ dnsRec = {}
    /\ bIPs = [d \in Deployments |-> {}]
    /\ bLocal = [d \in Deployments |-> FALSE]
    /\ bpc = [d \in Deployments |-> "idle"]
    /\ bSr = [d \in Deployments |-> "unread"]
    /\ bMade = [d \in Deployments |-> FALSE]
    /\ bResp = [d \in Deployments |-> ""]
    /\ bEvent = [d \in Deployments |-> 0]


\* the handler is not running
DelIdle ==
    /\ dHdr = NoHeaders
    /\ dReq = <<>>
    /\ lockEnabled = FALSE
    /\ dpc = "idle"
    /\ dSeen = {}
    /\ dCtx = "request"
    /\ dGone = ""
    /\ dCalled = FALSE
    /\ dIdx = 0
    /\ deleteResults = <<>>
    /\ objectsToDelete = {}
    /\ deleteList = <<>>
    /\ dErrs = <<>>
    /\ dResp = NoResponse
    /\ tierEmpty = TRUE
    /\ oss = <<>>
    /\ swept = {}

\* ================================================= initFederatorBackend
Buckets == {"b1", "b2"}

\* no reconciliation pass is running
FedIdle ==
    /\ fedpc = "idle"
    /\ fedLocal = {}
    /\ fedDNS = [b \in Buckets |-> {}]
    /\ fedIPs = {}
    /\ dnsBucketsNil = FALSE
    /\ domainMissing = FALSE
    /\ bucketsSet = {}
    /\ bucketsToBeUpdated = {}
    /\ bucketsInConflict = {}
    /\ fedPuts = {}
    /\ fedPutFailed = {}
    /\ fedLogged = {}
    /\ fedDeletes = {}

\* ========================================================= toStorageErr
\* the longest error text, in words, that is tried
MaxTextLen == 2

\* the singletons of the switch of toStorageErr, in its order
StorageErrors ==
    << "errFaultyDisk", "errFileCorrupt", "errUnexpected", "errDiskFull",
       "errVolumeNotFound", "errVolumeExists", "errFileNotFound",
       "errFileVersionNotFound", "errFileNameTooLong", "errFileAccessDenied",
       "errPathNotFound", "errIsNotRegular", "errVolumeNotEmpty",
       "errVolumeAccessDenied", "errCorruptedFormat", "errUnformattedDisk",
       "errInvalidAccessKeyID", "errAuthentication",
       "errRPCAPIVersionUnsupported", "errServerTimeMismatch", "io.EOF",
       "io.ErrUnexpectedEOF", "errDiskStale", "errDiskNotFound" >>

\* Error() of each singleton
ErrorText ==
    [ errFaultyDisk |-> "drive is faulty",
      errFileCorrupt |-> "file is corrupted",
      errUnexpected |-> "unexpected error, please report this issue",
      errDiskFull |-> "drive path full",
      errVolumeNotFound |-> "volume not found",
      errVolumeExists |-> "volume already exists",
      errFileNotFound |-> "file not found",
      errFileVersionNotFound |-> "file version not found",
      errFileNameTooLong |-> "file name too long",
      errFileAccessDenied |-> "file access denied",
      errPathNotFound |-> "path not found",
      errIsNotRegular |-> "not of regular file type",
      errVolumeNotEmpty |-> "volume is not empty",
      errVolumeAccessDenied |-> "volume access denied",
      errCorruptedFormat |-> "corrupted backend format",
      errUnformattedDisk |-> "unformatted drive found",
      errInvalidAccessKeyID |-> "The access key ID you provided does not exist in our records",
      errAuthentication |-> "Authentication failed, check your access credentials",
      errRPCAPIVersionUnsupported |-> "Unsupported rpc API version",
      errServerTimeMismatch |-> "Server times are too far apart",
      EOF |-> "EOF",
      ErrUnexpectedEOF |-> "unexpected EOF",
      errDiskStale |-> "drive stale",
      errDiskNotFound |-> "drive not found" ]

\* the field of ErrorText that holds the text of a singleton
FieldOf(e) ==
    CASE e = "io.EOF" -> "EOF"
      [] e = "io.ErrUnexpectedEOF" -> "ErrUnexpectedEOF"
      [] OTHER -> e

\* line 60
ErrServerClosed == "http: Server closed"

\* line 64
IdleClosed == "server closed idle connection"

\* an error text is a sequence of pieces: the text of a singleton, one of the
\* two texts of isNetworkError, or some other words
Pieces ==
    { ErrorText[FieldOf(StorageErrors[i])] : i \in 1..Len(StorageErrors) }
        \cup {ErrServerClosed, IdleClosed, "other words"}

Texts == UNION { [1..n -> Pieces] : n \in 1..MaxTextLen }

\* err == nil
NilError == [kind |-> "nil", text |-> <<>>]

\* the singleton of a name
Singleton(e) == [kind |-> e, text |-> <<ErrorText[FieldOf(e)]>>]

\* an error that is none of the singletons: "plain" holds a text only, "down"
\* is a *rest.NetworkError whose cause xnet.IsNetworkOrHostDown accepts
ErrorValues ==
    {NilError}
        \cup { Singleton(StorageErrors[i]) : i \in 1..Len(StorageErrors) }
        \cup [kind : {"plain", "down"}, text : Texts]

\* no conversion is running
ErrIdle ==
    /\ tspc = "idle"
    /\ tsIn = NilError
    /\ tsOut = NilError
    /\ tsBack = NilError

\* ============================================================ NSScanner
\* the most updates a response stream holds
MaxUpdates == 3

\* what a read of the response stream fails with: a clean end of the stream, an
\* end inside a value, a failure of the transport
ReadErrors == {"io.EOF", "io.ErrUnexpectedEOF", "errDiskNotFound"}

NoReturn == [cache |-> "", err |-> ""]

\* no scan is running
ScanIdle ==
    /\ scpc = "idle"
    /\ scCtxDone = FALSE
    /\ scN = 0
    /\ scSent = 0
    /\ scClosed = 0
    /\ scLate = FALSE
    /\ scRet = NoReturn

\* ======================================= PostPolicyBucketHandler, encryption
\* what a form or a bucket configuration asks for
SSEKinds == {"none", "SSE-S3", "SSE-KMS", "SSE-C"}

\* no POST upload is at its encryption checks
PostIdle ==
    /\ ppc = "idle"
    /\ pForm = "none"
    /\ pHdrSSEC = FALSE
    /\ pHdrCopy = FALSE
    /\ pBucketSSE = "none"
    /\ pRepl = FALSE
    /\ pEntries = 0
    /\ pKind = "none"
    /\ pWrites = 0
    /\ pResp = ""

\* ======================================================= the walk filter
\* the latest modification time; 0 is the zero time.Time
MaxTime == 2

Times == 1..MaxTime

\* time.Now() when the filter runs
Now == MaxTime

\* the filters of a job that are tried: at most one key/value per list
KVFilters(key) == {<<>>, <<[Key |-> key, Value |-> "v"]>>, <<[Key |-> key, Value |-> "*"]>>}

Filters ==
    [OlderThan : 0..1, NewerThan : 0..1, CreatedAfter : 0..MaxTime,
     CreatedBefore : 0..MaxTime, Tags : KVFilters("t"),
     Metadata : KVFilters("x-amz-meta-m"), KMSKeyID : {"", "key1"}]

\* the objects the walk meets: the tagging string, the user metadata (at most
\* the one key X-Amz-Meta-M) and the KMS key ID of the metadata, "" when absent
FileInfos ==
    [ModTime : Times, Tagging : {"", "t=v", "t=w", "t"},
     Meta : {"", "v", "w"}, KmsID : {"", "key1", "arn:aws:kms:key1", "key2"}]

NoFilter ==
    [OlderThan |-> 0, NewerThan |-> 0, CreatedAfter |-> 0, CreatedBefore |-> 0,
     Tags |-> <<>>, Metadata |-> <<>>, KMSKeyID |-> ""]

NoFileInfo == [ModTime |-> 1, Tagging |-> "", Meta |-> "", KmsID |-> ""]

\* no filter is being evaluated
FltIdle ==
    /\ fltpc = "idle"
    /\ fltFilter = NoFilter
    /\ fltInfo = NoFileInfo
    /\ fltKept = FALSE

\* ============================================================ KeyRotate
\* a kms.Context, or nil
NilContext == [nil |-> TRUE, kv |-> {}]

Context(kv) == [nil |-> FALSE, kv |-> kv]

\* values of the job's encryption.context: absent, the base64 of {}, of
\* {"a":"1"}, and a text that is not base64
JobContexts == {"", "e30=", "eyJhIjoiMSJ9", "%"}

JobKeys == {"key1", "arn:aws:kms:key1", " key1"}

\* the SSE kind an object's metadata shows
ObjectEncs == {"none", "s3", "kms"}

ObjInfos == [DeleteMarker : BOOLEAN, Purge : BOOLEAN, Enc : ObjectEncs]

NoObjInfo == [DeleteMarker |-> FALSE, Purge |-> FALSE, Enc |-> "none"]

NoEncryption == [Type |-> "sse-s3", Key |-> "key1", Context |-> "", kmsContext |-> NilContext]

NoCall == [called |-> FALSE, newKeyID |-> "", newKeyContext |-> NilContext]

\* no KeyRotate call is being followed
KrIdle ==
    /\ krpc = "idle"
    /\ krEnc = NoEncryption
    /\ krKMS = FALSE
    /\ krWalk = NoObjInfo
    /\ krStore = NoObjInfo
    /\ krObj = NoObjInfo
    /\ krCall = NoCall
    /\ krLocked = FALSE
    /\ krRet = ""

\* none of the remaining operations is running
RestIdle == FedIdle /\ ErrIdle /\ ScanIdle /\ PostIdle /\ FltIdle /\ KrIdle

\* ------------------------------------------------------------ actions

RotInit ==
    /\ encType \in {"sse-s3", "sse-kms"}
    /\ attemptsCfg \in 0 .. MaxAttempts
    /\ \E env \in {-1} \cup (0 .. MaxWorkers), procs \in 1 .. 2 * MaxWorkers :
           workerSize = WorkerSize(env, procs)
    /\ name \in [Entries -> Names]
    /\ name[1] = 1
    /\ \A o \in Entries \ {1} : name[o] \in {name[o - 1], name[o - 1] + 1}
    /\ enc \in [Entries -> {"none", "s3", "kms"}]
    /\ passes \in [Entries -> BOOLEAN]
    \* the job never looks at an entry the filter drops: one encryption stands for all
    /\ \A o \in Entries : passes[o] \/ enc[o] = "s3"
    /\ rotated = [o \in Entries |-> FALSE]
    /\ nsLock = [n \in Names |-> 0]
    /\ ckpt = <<>>
    /\ pc = "init"
    /\ ri = ZeroInfo
    /\ lastObject = 0
    /\ retryAttempts = 0
    /\ next = 1
    /\ task = [o \in Entries |-> IdleTask]
    /\ notified = <<>>
    /\ kills = 0
    /\ tried = {}
    /\ DelIdle
    /\ FanIdle
    /\ BktIdle
    /\ RestIdle

\* lines 338-447: load the checkpoint, size the pool, start the walk
Start ==
    /\ pc = "init"
    /\ ri' = load(ckpt, attemptsCfg)
    /\ lastObject' = ri'.Object
    /\ IF workerSize <= 0
       THEN pc' = "error" /\ UNCHANGED retryAttempts
       ELSE pc' = "walk" /\ retryAttempts' = ri'.RetryAttempts
    /\ next' = 1
    /\ UNCHANGED <<delVars, fanVars, bktVars, restVars, encType, attemptsCfg, workerSize, name, enc, passes, rotated, nsLock,
                   ckpt, task, notified, kills, tried>>

\* lines 449-455: an entry that is not encrypted is dropped
SkipUnencrypted ==
    /\ pc = "walk"
    /\ HasResult
    /\ ~Encrypted(NextResult)
    /\ next' = NextResult + 1
    /\ UNCHANGED <<delVars, fanVars, bktVars, restVars, encType, attemptsCfg, workerSize, name, enc, passes, rotated, nsLock,
                   ckpt, pc, ri, lastObject, retryAttempts, task, notified, kills, tried>>

\* lines 456-459: take a slot and spawn the goroutine of the entry
Dispatch ==
    /\ pc = "walk"
    /\ HasResult
    /\ Encrypted(NextResult)
    /\ TakeReady
    /\ task' = [task EXCEPT ![NextResult] = [st |-> "start", attempts |-> 1]]
    /\ next' = NextResult + 1
    /\ UNCHANGED <<delVars, fanVars, bktVars, restVars, encType, attemptsCfg, workerSize, name, enc, passes, rotated, nsLock,
                   ckpt, pc, ri, lastObject, retryAttempts, notified, kills, tried>>

\* lines 464-478: what the goroutine does with KeyRotate's result: track the
\* object, remember the attempt number, checkpoint (debounced by 10 s), and
\* leave the loop on success
RecordOutcome(o, success) ==
    LET tracked == [trackCurrentBucketObject(ri, Name(o), success)
                       EXCEPT !.RetryAttempts = task[o].attempts]
    IN  /\ \E write \in Elapsed(tracked, 10) :
              IF write
              THEN ri' = Stamp(tracked) /\ ckpt' = <<Stamp(tracked)>>
              ELSE ri' = tracked /\ UNCHANGED ckpt
        /\ task' = [task EXCEPT ![o] =
                      IF success THEN IdleTask
                      ELSE [st |-> "start", attempts |-> task[o].attempts + 1]]

\* lines 459-463, 249-273: one more attempt; KeyRotate up to GetLock.  A
\* refusal or a lock timeout makes KeyRotate return an error at once.
KeyRotateLock(o) ==
    /\ task[o].st = "start"
    /\ MayAttempt(o)
    /\ tried' = tried \cup {o}
    /\ \/ /\ Refused(o)
          /\ RecordOutcome(o, FALSE)
          /\ UNCHANGED nsLock
       \/ /\ ~Refused(o)
          /\ LockFree(Name(o))
          /\ nsLock' = [nsLock EXCEPT ![Name(o)] = o]
          /\ task' = [task EXCEPT ![o].st = "locked"]
          /\ UNCHANGED <<ri, ckpt>>
       \/ /\ ~Refused(o)
          /\ ~LockFree(Name(o))
          /\ RecordOutcome(o, FALSE)
          /\ UNCHANGED nsLock
    /\ UNCHANGED <<delVars, fanVars, bktVars, restVars, encType, attemptsCfg, workerSize, name, enc, passes, rotated,
                   pc, lastObject, retryAttempts, next, notified, kills>>

\* lines 275-323, 464-478: GetObjectInfo, rotateKey, CopyObject under the
\* lock, any of which may fail; the deferred Unlock runs on return
KeyRotateLocked(o) ==
    /\ task[o].st = "locked"
    /\ \E ok \in BOOLEAN :
          /\ IF ok
             THEN /\ rotated' = [rotated EXCEPT ![o] = TRUE]
                  /\ enc' = [enc EXCEPT ![o] = Target(o)]
             ELSE UNCHANGED <<rotated, enc>>
          /\ RecordOutcome(o, ok)
    /\ nsLock' = [nsLock EXCEPT ![Name(o)] = 0]
    /\ UNCHANGED <<delVars, fanVars, bktVars, restVars, encType, attemptsCfg, workerSize, name, passes,
                   pc, lastObject, retryAttempts, next, notified, kills, tried>>

\* line 459 (loop condition false), line 458 (wk.Give)
WorkerExit(o) ==
    /\ task[o].st = "start"
    /\ ~MayAttempt(o)
    /\ task' = [task EXCEPT ![o] = IdleTask]
    /\ UNCHANGED <<delVars, fanVars, bktVars, restVars, encType, attemptsCfg, workerSize, name, enc, passes, rotated, nsLock,
                   ckpt, pc, ri, lastObject, retryAttempts, next, notified, kills, tried>>

\* lines 481-492: drain the pool, set Complete/Failed, checkpoint, notify
Finalize ==
    /\ pc = "walk"
    /\ ~HasResult
    /\ WaitDone
    /\ LET final == Stamp([ri EXCEPT !.Complete = FinalComplete(ri),
                                     !.Failed = FinalFailed(ri)])
       IN  /\ ri' = final
           /\ \E write \in Elapsed(ri, 0) :
                 IF write THEN ckpt' = <<final>> ELSE UNCHANGED ckpt
           /\ notified' = <<final>>
    /\ pc' = "finalized"
    /\ UNCHANGED <<delVars, fanVars, bktVars, restVars, encType, attemptsCfg, workerSize, name, enc, passes, rotated, nsLock,
                   lastObject, retryAttempts, next, task, kills, tried>>

\* lines 494-503: a failed job clears its in-memory progress and returns
Return ==
    /\ pc = "finalized"
    /\ ri' = IF ri.Failed
             THEN [ri EXCEPT !.ObjectsFailed = 0, !.Object = 0]
             ELSE ri
    /\ pc' = "done"
    /\ UNCHANGED <<delVars, fanVars, bktVars, restVars, encType, attemptsCfg, workerSize, name, enc, passes, rotated, nsLock,
                   ckpt, lastObject, retryAttempts, next, task, notified, kills, tried>>

\* the process dies during a run: memory, goroutines and held locks are gone,
\* the checkpoint and the bucket stay; the job is queued again
Kill ==
    /\ pc = "walk"
    /\ kills < MaxKills
    /\ kills' = kills + 1
    /\ pc' = "init"
    /\ ri' = ZeroInfo
    /\ lastObject' = 0
    /\ retryAttempts' = 0
    /\ next' = 1
    /\ task' = [o \in Entries |-> IdleTask]
    /\ nsLock' = [n \in Names |-> 0]
    /\ tried' = {}
    /\ UNCHANGED <<delVars, fanVars, bktVars, restVars, encType, attemptsCfg, workerSize, name, enc, passes, rotated,
                   ckpt, notified>>

RotNext ==
    \/ Start
    \/ SkipUnencrypted
    \/ Dispatch
    \/ \E o \in Entries : KeyRotateLock(o)
    \/ \E o \in Entries : KeyRotateLocked(o)
    \/ \E o \in Entries : WorkerExit(o)
    \/ Finalize
    \/ Return

\* one run of a new job
SpecRotate == RotInit /\ [][RotNext]_vars

ResumeNext == RotNext \/ Kill

\* runs of a job whose process may be killed and the job resumed
SpecResume == RotInit /\ [][ResumeNext]_vars

\* a new job whose objects differ only in being encrypted or not, rotated by
\* one worker: every entry passes the filter and has a name of its own
PlainInit ==
    /\ RotInit
    /\ encType = "sse-kms"
    /\ \A o \in Entries : name[o] = o /\ passes[o] /\ enc[o] \in {"none", "s3"}
    /\ workerSize = 1

\* killed and resumed runs of such a job
SpecResumePlain == PlainInit /\ [][ResumeNext]_vars

\* ----------------------------------------------------- multi-delete steps

\* the batch job is not running
RotIdle ==
    /\ encType = "sse-s3"
    /\ attemptsCfg = 0
    /\ workerSize = 0
    /\ name = [o \in Entries |-> 1]
    /\ enc = [o \in Entries |-> "none"]
    /\ passes = [o \in Entries |-> FALSE]
    /\ rotated = [o \in Entries |-> FALSE]
    /\ nsLock = [n \in Names |-> 0]
    /\ ckpt = <<>>
    /\ pc = "idle"
    /\ ri = ZeroInfo
    /\ lastObject = 0
    /\ retryAttempts = 0
    /\ next = 1
    /\ task = [o \in Entries |-> IdleTask]
    /\ notified = <<>>
    /\ kills = 0
    /\ tried = {}

Requests == UNION { [1 .. n -> ObjectV] : n \in 0 .. MaxReq }

\* uuid.Parse succeeds
IsUUID(v) == v = "u"

BadVersionIDNever(v) == FALSE

\* line 527: a version ID that must parse as a UUID and does not
BadVersionID(v) == v # "" /\ v # nullVersionID /\ ~IsUUID(v)

\* results of checkRequestAuthTypeWithVID
AuthCodes == {"ErrNone", "ErrAccessDenied", "ErrSignatureDoesNotMatch",
              "ErrInvalidAccessKeyID"}

AbortsOnlySignature(code) == code = "ErrSignatureDoesNotMatch"

\* lines 514: the codes that abort the whole request
AbortsRequest(code) == code \in {"ErrSignatureDoesNotMatch", "ErrInvalidAccessKeyID"}

\* errorCodes.ToAPIErr(code).Code
APICode(code) ==
    CASE code = "ErrAccessDenied" -> "AccessDenied"
      [] code = "ErrSignatureDoesNotMatch" -> "SignatureDoesNotMatch"
      [] code = "ErrInvalidAccessKeyID" -> "InvalidAccessKeyId"
      [] code = "ErrNoSuchVersion" -> "NoSuchVersion"
      [] code = "ErrObjectLocked" -> "AccessDenied"
      [] code = "ErrMalformedXML" -> "MalformedXML"
      [] code = "ErrServerNotInitialized" -> "XMinioServerNotInitialized"
      [] code = "ErrMissingContentMD5" -> "MissingContentMD5"
      [] code = "ErrMissingContentLength" -> "MissingContentLength"
      [] code = "ErrEntityTooLarge" -> "EntityTooLarge"
      [] code = "ErrNoSuchBucket" -> "NoSuchBucket"
      [] OTHER -> "InternalError"

DeleteErrorOf(code, obj) ==
    [Code |-> APICode(code), Key |-> obj.ObjectName, VersionID |-> obj.VersionID]

\* strings.HasSuffix(name, "/")
isDirObject(n) == n = "d/"

\* lines 559-561: deletes of directory objects are for the null version
DirVersioned(obj) ==
    IF isDirObject(obj.ObjectName) /\ obj.VersionID = ""
    THEN [obj EXCEPT !.VersionID = nullVersionID]
    ELSE obj

\* line 580: the entries retention enforcement is asked about
RetentionApplies(obj) == DirVersioned(obj).VersionID # "" /\ lockEnabled

\* lines 513-556: a sweeper is made for an entry that passed authorization
\* and the version id check, when a remote tier is configured
SweeperMade(code, obj) ==
    code = "ErrNone" /\ ~BadVersionID(obj.VersionID) /\ ~tierEmpty

\* lines 703-709: Sweep() is called for each entry of oss that is not nil
Swept(sweepers) == { i \in DOMAIN sweepers : sweepers[i] }

BadListSizeOnlyEmpty(n) == n = 0

\* line 481
BadListSize(n) == n = 0 \/ n > maxDeleteList

RememberLast(map, obj, idx) ==
    { e \in map : e.obj # obj } \cup {[obj |-> obj, idx |-> idx]}

\* lines 593-596: the first index of an entry is kept
Remember(map, obj, idx) ==
    IF \E e \in map : e.obj = obj THEN map ELSE map \cup {[obj |-> obj, idx |-> idx]}

\* line 633: a map read; a missing key reads as the zero index, the first slot
Lookup(map, obj) ==
    IF \E e \in map : e.obj = obj
    THEN (CHOOSE e \in map : e.obj = obj).idx
    ELSE 1

MapKeys(map) == { e.obj : e \in map }

\* lines 599-607: the keys of the map in the order the iteration yields them
toNames(map) ==
    { l \in [1 .. Cardinality(map) -> MapKeys(map)] :
          \A k \in MapKeys(map) : \E i \in DOMAIN l : l[i] = k }

BulkContextOfRequest(ctx) == ctx

\* bgContext: a context that is never cancelled
bgContext(ctx) == "background"

\* line 610: the context handed to DeleteObjects
BulkContext(ctx) == bgContext(ctx)

\* the context DeleteObjects runs under is cancelled
CtxDone == dCtx = "request" /\ dGone # ""

\* ObjectLayer.DeleteObjects: one DeletedObject and one error per list entry,
\* the DeletedObject naming the entry it is for
DeletedObjectOf(obj) == [ObjectName |-> obj.ObjectName, VersionID |-> obj.VersionID]

DeleteOutcomes == {"nil", "ObjectNotFound", "VersionNotFound", "Other"}

\* ObjectLayer.DeleteObjects under a cancelled context gives up on an entry
BulkOutcomes == IF CtxDone THEN DeleteOutcomes \cup {"Canceled"} ELSE DeleteOutcomes

\* line 634
CountsAsDeleted(err) == err \in {"nil", "ObjectNotFound", "VersionNotFound"}

\* lines 618-648: results go to the slot the map remembers for the entry
RECURSIVE Scatter(_, _, _, _, _)
Scatter(results, map, list, errs, i) ==
    IF i > Len(errs)
    THEN results
    ELSE LET dindex == Lookup(map, list[i])
             slot == IF CountsAsDeleted(errs[i])
                     THEN [results[dindex] EXCEPT !.delInfo = DeletedObjectOf(list[i])]
                     ELSE [results[dindex] EXCEPT
                              !.errInfo = DeleteErrorOf(errs[i], list[i])]
         IN  Scatter([results EXCEPT ![dindex] = slot], map, list, errs, i + 1)

\* lines 651-659
RECURSIVE deleteErrors(_, _)
deleteErrors(results, i) ==
    IF i > Len(results) THEN <<>>
    ELSE (IF results[i].errInfo.Code # "" THEN <<results[i].errInfo>> ELSE <<>>)
             \o deleteErrors(results, i + 1)

RECURSIVE deletedObjects(_, _)
deletedObjects(results, i) ==
    IF i > Len(results) THEN <<>>
    ELSE (IF results[i].errInfo.Code # "" THEN <<>> ELSE <<results[i].delInfo>>)
             \o deletedObjects(results, i + 1)

DelInit ==
    /\ RotIdle
    /\ FanIdle
    /\ BktIdle
    /\ RestIdle
    /\ dHdr \in [md5 : BOOLEAN, length : ContentLengths]
    /\ lockEnabled \in BOOLEAN
    /\ dReq = <<>>
    /\ dpc = "start"
    /\ dSeen = {}
    /\ dCtx = "request"
    /\ dGone = ""
    /\ dCalled = FALSE
    /\ dIdx = 0
    /\ deleteResults = <<>>
    /\ objectsToDelete = {}
    /\ deleteList = <<>>
    /\ dErrs = <<>>
    /\ dResp = NoResponse
    /\ tierEmpty \in BOOLEAN
    /\ oss = <<>>
    /\ swept = {}

\* lines 419-445: the checks made before the body is read
DelPrecheck ==
    /\ dpc = "start"
    /\ \E up \in BOOLEAN :
         LET code == IF ~up THEN "ErrServerNotInitialized"
                     ELSE IF ~dHdr.md5 THEN "ErrMissingContentMD5"
                     ELSE IF dHdr.length <= 0 THEN "ErrMissingContentLength"
                     ELSE IF dHdr.length > maxBodySize THEN "ErrEntityTooLarge"
                     ELSE "ErrNone"
         IN  IF code # "ErrNone"
             THEN /\ dResp' = [NoResponse EXCEPT !.code = APICode(code)]
                  /\ dpc' = "done"
             ELSE /\ dpc' = "parse"
                  /\ UNCHANGED dResp
    /\ UNCHANGED <<rotVars, fanVars, bktVars, restVars, dHdr, dReq, lockEnabled, dSeen, dCtx, dGone,
                   dCalled, dIdx, deleteResults, objectsToDelete, deleteList, dErrs>>
    /\ UNCHANGED <<tierEmpty, oss, swept>>

\* lines 447-511: the body is decoded, the bucket looked up, the size of the
\* list checked, and one result slot per entry allocated
DelParse ==
    /\ dpc = "parse"
    /\ \E decoded \in BOOLEAN, req \in Requests, bucket \in BOOLEAN :
         /\ ~decoded => req = <<>>
         /\ dReq' = req
         /\ LET code == IF ~decoded THEN "ErrDecode"
                        ELSE IF ~bucket THEN "ErrNoSuchBucket"
                        ELSE IF BadListSize(Len(req)) THEN "ErrMalformedXML"
                        ELSE "ErrNone"
            IN  IF code # "ErrNone"
                THEN /\ dResp' = [NoResponse EXCEPT !.code = APICode(code)]
                     /\ dpc' = "done"
                     /\ UNCHANGED <<deleteResults, dIdx, oss>>
                ELSE /\ deleteResults' = [i \in 1 .. Len(req) |->
                                             [delInfo |-> NoDeleted, errInfo |-> NoError]]
                     /\ oss' = [i \in 1 .. Len(req) |-> FALSE]
                     /\ dIdx' = 1
                     /\ dpc' = "loop"
                     /\ UNCHANGED dResp
    /\ UNCHANGED <<rotVars, fanVars, bktVars, restVars, dHdr, lockEnabled, dSeen, dCtx, dGone, dCalled,
                   objectsToDelete, deleteList, dErrs>>
    /\ UNCHANGED <<tierEmpty, swept>>

\* lines 512-597: one iteration of the loop over the request entries.  The
\* request and the object being the same, an entry seen again is answered by
\* authorization and by retention enforcement as it was the first time.
DelCheck ==
    /\ dpc = "loop"
    /\ dIdx <= Len(dReq)
    /\ LET object == dReq[dIdx]
           dirobj == DirVersioned(object)
       IN
       \E code \in AuthCodes, refused \in BOOLEAN :
          /\ \A e \in dSeen : e.obj = object => e.code = code
          /\ \A e \in dSeen : DirVersioned(e.obj) = dirobj => e.refused = refused
          /\ refused => (code = "ErrNone" /\ ~BadVersionID(object.VersionID)
                            /\ RetentionApplies(object))
          /\ dSeen' = dSeen \cup {[obj |-> object, code |-> code, refused |-> refused]}
          /\ oss' = [oss EXCEPT ![dIdx] = SweeperMade(code, object)]
          /\ \/ /\ code # "ErrNone"
                /\ AbortsRequest(code)
                /\ dResp' = [NoResponse EXCEPT !.code = APICode(code)]
                /\ dpc' = "done"
                /\ UNCHANGED <<deleteResults, objectsToDelete, dIdx>>
             \/ /\ code # "ErrNone"
                /\ ~AbortsRequest(code)
                /\ deleteResults' = [deleteResults EXCEPT
                                        ![dIdx].errInfo = DeleteErrorOf(code, object)]
                /\ dIdx' = dIdx + 1
                /\ UNCHANGED <<dResp, dpc, objectsToDelete>>
             \/ /\ code = "ErrNone"
                /\ BadVersionID(object.VersionID)
                /\ deleteResults' = [deleteResults EXCEPT
                                        ![dIdx].errInfo =
                                            DeleteErrorOf("ErrNoSuchVersion", object)]
                /\ dIdx' = dIdx + 1
                /\ UNCHANGED <<dResp, dpc, objectsToDelete>>
             \/ /\ code = "ErrNone"
                /\ ~BadVersionID(object.VersionID)
                /\ RetentionApplies(object) /\ refused
                /\ deleteResults' = [deleteResults EXCEPT
                                        ![dIdx].errInfo =
                                            DeleteErrorOf("ErrObjectLocked", dirobj)]
                /\ dIdx' = dIdx + 1
                /\ UNCHANGED <<dResp, dpc, objectsToDelete>>
             \/ /\ code = "ErrNone"
                /\ ~BadVersionID(object.VersionID)
                /\ ~(RetentionApplies(object) /\ refused)
                /\ objectsToDelete' = Remember(objectsToDelete, dirobj, dIdx)
                /\ dIdx' = dIdx + 1
                /\ UNCHANGED <<dResp, dpc, deleteResults>>
    /\ UNCHANGED <<rotVars, fanVars, bktVars, restVars, dHdr, dReq, lockEnabled, dCtx, dGone, dCalled,
                   deleteList, dErrs>>
    /\ UNCHANGED <<tierEmpty, swept>>

\* the client goes away: the request's context is cancelled
DelDisconnect ==
    /\ dpc \in {"start", "parse", "loop", "bulk"}
    /\ dGone = ""
    /\ dGone' = dpc
    /\ UNCHANGED <<rotVars, fanVars, bktVars, restVars, dHdr, dReq, lockEnabled, dpc, dSeen, dCtx,
                   dCalled, dIdx, deleteResults, objectsToDelete, deleteList, dErrs, dResp>>
    /\ UNCHANGED <<tierEmpty, oss, swept>>

\* lines 609-612: the context is detached and the bulk DeleteObjects call issued
DelBulk ==
    /\ dpc = "loop"
    /\ dIdx > Len(dReq)
    /\ dCtx' = BulkContext(dCtx)
    /\ deleteList' \in toNames(objectsToDelete)
    /\ dErrs' = <<>>
    /\ dCalled' = TRUE
    /\ dpc' = "bulk"
    /\ UNCHANGED <<rotVars, fanVars, bktVars, restVars, dHdr, dReq, lockEnabled, dSeen, dGone, dIdx,
                   deleteResults, objectsToDelete, dResp>>
    /\ UNCHANGED <<tierEmpty, oss, swept>>

\* ObjectLayer.DeleteObjects deals with the next entry of the list
DelDeleteOne ==
    /\ dpc = "bulk"
    /\ Len(dErrs) < Len(deleteList)
    /\ \E err \in BulkOutcomes : dErrs' = Append(dErrs, err)
    /\ UNCHANGED <<rotVars, fanVars, bktVars, restVars, dHdr, dReq, lockEnabled, dpc, dSeen, dCtx,
                   dGone, dCalled, dIdx, deleteResults, objectsToDelete, deleteList, dResp>>
    /\ UNCHANGED <<tierEmpty, oss, swept>>

\* lines 612-709: DeleteObjects returns; scatter the results, build and write
\* the response, then sweep the remote tier (lines 703-709)
DelRespond ==
    /\ dpc = "bulk"
    /\ Len(dErrs) = Len(deleteList)
    /\ deleteResults' = Scatter(deleteResults, objectsToDelete, deleteList, dErrs, 1)
    /\ dResp' = [code |-> "",
                 Deleted |-> deletedObjects(deleteResults', 1),
                 Errors |-> deleteErrors(deleteResults', 1)]
    /\ dpc' = "done"
    /\ UNCHANGED <<rotVars, fanVars, bktVars, restVars, dHdr, dReq, lockEnabled, dSeen, dCtx, dGone,
                   dCalled, dIdx, objectsToDelete, deleteList, dErrs>>
    /\ swept' = Swept(oss)
    /\ UNCHANGED <<tierEmpty, oss>>

DelNext ==
    \/ DelPrecheck
    \/ DelParse
    \/ DelCheck
    \/ DelDisconnect
    \/ DelBulk
    \/ DelDeleteOne
    \/ DelRespond

SpecDelete == DelInit /\ [][DelNext]_vars

\* ------------------------------------------- PostPolicyBucketHandler steps

\* lines 1282-1285; MaxWidth stands for the 100 of line 1282
ConcurrentSize(procs) == IF procs < MaxWidth THEN procs ELSE MaxWidth

\* ioutil.HardLimitReader: reading fails once the source yields more than limit bytes
HardLimitExceeded(size, limit) == size > limit

CopyErrorIgnored(size) == FALSE

\* lines 1276-1280: io.Copy returns an error for an input above the limit
CopyFails(size) == HardLimitExceeded(size, maxFanOutSize)

\* the number of bytes io.Copy moves into buf
Copied(size) == IF size > maxFanOutSize THEN maxFanOutSize ELSE size

BatchBytesFromStream(n, pos) == [from |-> pos + 1, len |-> fSize - pos]

\* lines 1295, 1298: buf.Bytes()[:n], the bytes each put of a batch is given
BatchBytes(n, pos) == [from |-> 1, len |-> n]

\* fanOutEntries[lo : hi], entries lo+1 .. hi
Slice(lo, hi) == [i \in 1 .. hi - lo |-> lo + i]

BatchDoneNoWait(batch) == TRUE

\* fanOutPutObject returns when each of its tasks has ended
BatchDone(batch) == \A i \in DOMAIN batch : fTask[batch[i]] \in {"ok", "failed"}

\* lines 1302-1327: the records and the events a returned batch adds
BatchResp(batch) == [i \in DOMAIN batch |-> [Key |-> batch[i], ok |-> fTask[batch[i]] = "ok"]]

IsOk(e) == fTask[e] = "ok"

BatchEvents(batch) == SelectSeq(batch, IsOk)

FanInit ==
    /\ RotIdle
    /\ DelIdle
    /\ BktIdle
    /\ RestIdle
    /\ fpc = "start"
    /\ fN \in 1 .. MaxFanOut
    /\ fSize \in {0, 1, maxFanOutSize, maxFanOutSize + 1}
    /\ fPos = 0
    /\ \E procs \in 1 .. MaxWidth + 1 : fW = ConcurrentSize(procs)
    /\ fBuf = 0
    /\ fNext = 1
    /\ fDone = FALSE
    /\ fBatch = <<>>
    /\ fTask = [e \in FanEntries |-> "todo"]
    /\ fStore = [e \in FanEntries |-> NoBytes]
    /\ fanOutResp = <<>>
    /\ eventArgsList = <<>>
    /\ fI = 0
    /\ fOut = <<>>
    /\ fEvents = <<>>
    /\ fCalls = <<>>
    /\ fCtxDone = FALSE

\* lines 1270-1280: the input is copied into buf
FanRead ==
    /\ fpc = "start"
    /\ \E ioerr \in BOOLEAN :
         /\ fPos' = IF ioerr THEN 0 ELSE fSize
         /\ IF ioerr \/ CopyFails(fSize)
            THEN fpc' = "error" /\ UNCHANGED fBuf
            ELSE fpc' = "batch" /\ fBuf' = Copied(fSize)
    /\ UNCHANGED <<rotVars, delVars, bktVars, restVars, fN, fSize, fW, fNext, fDone, fBatch, fTask,
                   fStore, fanOutResp, eventArgsList, fI, fOut, fEvents, fCalls, fCtxDone>>

\* lines 1289-1300: the next batch is cut off fanOutEntries and handed to
\* fanOutPutObject, which starts one task per entry
FanBatchStart ==
    /\ fpc = "batch"
    /\ LET remaining == fN - fNext + 1
           batch == IF remaining < fW
                    THEN Slice(fNext - 1, fN)
                    ELSE Slice(fNext - 1, fNext - 1 + fW)
       IN  /\ fDone' = (remaining < fW)
           /\ fNext' = IF remaining < fW THEN fNext ELSE fNext + fW
           /\ fBatch' = batch
           /\ fCalls' = Append(fCalls, batch)
           /\ fTask' = [e \in FanEntries |->
                           IF \E i \in DOMAIN batch : batch[i] = e
                           THEN "running" ELSE fTask[e]]
    /\ fpc' = "call"
    /\ UNCHANGED <<rotVars, delVars, bktVars, restVars, fN, fSize, fPos, fW, fBuf, fStore, fanOutResp,
                   eventArgsList, fI, fOut, fEvents, fCtxDone>>

\* fanOutPutObject: the task of entry e writes its object, or fails
FanPut(e) ==
    /\ fpc = "call"
    /\ fTask[e] = "running"
    /\ \E ok \in BOOLEAN :
         /\ fTask' = [fTask EXCEPT ![e] = IF ok THEN "ok" ELSE "failed"]
         /\ fStore' = IF ok THEN [fStore EXCEPT ![e] = BatchBytes(fBuf, fPos)] ELSE fStore
    /\ UNCHANGED <<rotVars, delVars, bktVars, restVars, fpc, fN, fSize, fPos, fW, fBuf, fNext, fDone,
                   fBatch, fanOutResp, eventArgsList, fI, fOut, fEvents, fCalls, fCtxDone>>

\* lines 1294-1332: fanOutPutObject returns, the records and events of the
\* batch are collected
FanBatchReturn ==
    /\ fpc = "call"
    /\ BatchDone(fBatch)
    /\ fanOutResp' = fanOutResp \o BatchResp(fBatch)
    /\ eventArgsList' = eventArgsList \o BatchEvents(fBatch)
    /\ fBatch' = <<>>
    /\ IF fDone THEN fpc' = "write" /\ fI' = 1 ELSE fpc' = "batch" /\ UNCHANGED fI
    /\ UNCHANGED <<rotVars, delVars, bktVars, restVars, fN, fSize, fPos, fW, fBuf, fNext, fDone, fTask,
                   fStore, fOut, fEvents, fCalls, fCtxDone>>

\* lines 1334-1357: one iteration of the loop that writes the records and sends
\* the events; eventArgsList[i] past the end of the list is a run-time panic
FanWrite ==
    /\ fpc = "write"
    /\ fI <= Len(fanOutResp)
    /\ \E encoded \in BOOLEAN :
         IF ~encoded
         THEN fpc' = "error" /\ UNCHANGED <<fOut, fEvents, fI>>
         ELSE /\ fOut' = Append(fOut, fanOutResp[fI])
              /\ IF fI > Len(eventArgsList)
                 THEN fpc' = "panic" /\ UNCHANGED <<fEvents, fI>>
                 ELSE /\ fEvents' = Append(fEvents, eventArgsList[fI])
                      /\ fI' = fI + 1
                      /\ UNCHANGED fpc
    /\ UNCHANGED <<rotVars, delVars, bktVars, restVars, fN, fSize, fPos, fW, fBuf, fNext, fDone, fBatch,
                   fTask, fStore, fanOutResp, eventArgsList, fCalls, fCtxDone>>

\* line 1358
FanReturn ==
    /\ fpc = "write"
    /\ fI > Len(fanOutResp)
    /\ fpc' = "done"
    /\ UNCHANGED <<rotVars, delVars, bktVars, restVars, fN, fSize, fPos, fW, fBuf, fNext, fDone, fBatch,
                   fTask, fStore, fanOutResp, eventArgsList, fI, fOut, fEvents, fCalls, fCtxDone>>

\* the request's context is cancelled while the batches are under way
FanCancel ==
    /\ fpc \in {"batch", "call"}
    /\ ~fCtxDone
    /\ fCtxDone' = TRUE
    /\ UNCHANGED <<rotVars, delVars, bktVars, restVars, fpc, fN, fSize, fPos, fW, fBuf, fNext, fDone,
                   fBatch, fTask, fStore, fanOutResp, eventArgsList, fI, fOut, fEvents, fCalls>>

FanNext ==
    \/ FanRead
    \/ FanBatchStart
    \/ \E e \in FanEntries : FanPut(e)
    \/ FanBatchReturn
    \/ FanWrite
    \/ FanReturn
    \/ FanCancel

SpecFanOut == FanInit /\ [][FanNext]_vars

\* ------------------------------------------------- PutBucketHandler steps

OwnedIfSubset(ips, hosts) == hosts \subseteq ips

\* line 839: the record's hosts intersect globalDomainIPs
Owned(ips, hosts) == ips \cap hosts # {}

\* what globalDNSConfig.Get can return: the record, dns.ErrNoEntriesFound
\* when there is none, or another error
GetResults == IF dnsRec = {} THEN {"ErrNoEntriesFound", "other"} ELSE {"nil", "other"}

\* every deployment has a PutBucket request for the one bucket name
BktInit ==
    /\ RotIdle
    /\ DelIdle
    /\ FanIdle
    /\ RestIdle
    /\ dnsOn \in BOOLEAN
    /\ dnsRec \in SUBSET Hosts
    /\ ~dnsOn => dnsRec = {}
    /\ bIPs \in [Deployments -> SUBSET Hosts \ {{}}]
    /\ bLocal \in [Deployments -> BOOLEAN]
    /\ bpc = [d \in Deployments |-> "get"]
    /\ bSr = [d \in Deployments |-> {}]
    /\ bMade = [d \in Deployments |-> FALSE]
    /\ bResp = [d \in Deployments |-> ""]
    /\ bEvent = [d \in Deployments |-> 0]

\* lines 715-795 and 834-847: the checks of the request, then the lookup of
\* the name in DNS when federation is configured
BktGet(d) ==
    /\ bpc[d] = "get"
    /\ \E pre \in BOOLEAN, res \in GetResults :
         \/ /\ ~pre
            /\ bResp' = [bResp EXCEPT ![d] = "Rejected"]
            /\ bpc' = [bpc EXCEPT ![d] = "done"]
            /\ UNCHANGED bSr
         \/ /\ pre /\ ~dnsOn
            /\ bpc' = [bpc EXCEPT ![d] = "make"]
            /\ UNCHANGED <<bSr, bResp>>
         \/ /\ pre /\ dnsOn /\ res = "other"
            /\ bResp' = [bResp EXCEPT ![d] = "InternalError"]
            /\ bpc' = [bpc EXCEPT ![d] = "done"]
            /\ UNCHANGED bSr
         \/ /\ pre /\ dnsOn /\ res = "ErrNoEntriesFound"
            /\ bpc' = [bpc EXCEPT ![d] = "make"]
            /\ UNCHANGED <<bSr, bResp>>
         \/ /\ pre /\ dnsOn /\ res = "nil"
            /\ bSr' = [bSr EXCEPT ![d] = dnsRec]
            /\ bResp' = [bResp EXCEPT ![d] =
                            IF Owned(bIPs[d], dnsRec) THEN "BucketAlreadyOwnedByYou"
                            ELSE "BucketAlreadyExists"]
            /\ bpc' = [bpc EXCEPT ![d] = "done"]
    /\ UNCHANGED <<rotVars, delVars, fanVars, restVars, dnsOn, dnsRec, bIPs, bLocal, bMade, bEvent>>

\* lines 799-803 and 850-884: MakeBucket; without federation the request ends here
BktMake(d) ==
    /\ bpc[d] = "make"
    /\ \E ok \in BOOLEAN :
         IF bLocal[d] \/ ~ok
         THEN /\ bResp' = [bResp EXCEPT ![d] = "MakeBucketError"]
              /\ bpc' = [bpc EXCEPT ![d] = "done"]
              /\ UNCHANGED <<bLocal, bMade, bEvent>>
         ELSE /\ bLocal' = [bLocal EXCEPT ![d] = TRUE]
              /\ bMade' = [bMade EXCEPT ![d] = TRUE]
              /\ IF dnsOn
                 THEN /\ bpc' = [bpc EXCEPT ![d] = "put"]
                      /\ UNCHANGED <<bResp, bEvent>>
                 ELSE /\ bResp' = [bResp EXCEPT ![d] = "OK"]
                      /\ bEvent' = [bEvent EXCEPT ![d] = @ + 1]
                      /\ bpc' = [bpc EXCEPT ![d] = "done"]
    /\ UNCHANGED <<rotVars, delVars, fanVars, restVars, dnsOn, dnsRec, bIPs, bSr>>

\* lines 805-832: the name is registered in DNS; when that fails the bucket is
\* deleted again, the result of DeleteBucket not being looked at
BktPut(d) ==
    /\ bpc[d] = "put"
    /\ \E ok \in BOOLEAN, rolled \in BOOLEAN :
         IF ok
         THEN /\ rolled
              /\ dnsRec' = bIPs[d]
              /\ bResp' = [bResp EXCEPT ![d] = "OK"]
              /\ bEvent' = [bEvent EXCEPT ![d] = @ + 1]
              /\ UNCHANGED bLocal
         ELSE /\ bLocal' = [bLocal EXCEPT ![d] = ~rolled]
              /\ bResp' = [bResp EXCEPT ![d] = "InternalError"]
              /\ UNCHANGED <<dnsRec, bEvent>>
    /\ bpc' = [bpc EXCEPT ![d] = "done"]
    /\ UNCHANGED <<rotVars, delVars, fanVars, restVars, dnsOn, bIPs, bSr, bMade>>

BktNext ==
    \/ \E d \in Deployments : BktGet(d)
    \/ \E d \in Deployments : BktMake(d)
    \/ \E d \in Deployments : BktPut(d)

SpecPutBucket == BktInit /\ [][BktNext]_vars

\* ------------------------------------------------ initFederatorBackend steps

\* the DNS directory holds no record
NoRecords(dns) == \A b \in Buckets : dns[b] = {}

\* line 118: the record's hosts intersect globalDomainIPs
Intersects(ips, hosts) == ips \cap hosts # {}

\* line 119: every local IP is in the record, and the domain is not missing
NothingChanged(ips, hosts, missing) == ips \ hosts = {} /\ ~missing

NeedsUpdateAnyRecord(dns, b) == TRUE

\* lines 111-136: the local buckets that get a dns.Put
NeedsUpdate(dns, b) ==
    \/ dns[b] = {}
    \/ /\ Intersects(fedIPs, dns[b])
       /\ ~NothingChanged(fedIPs, dns[b], domainMissing)

\* lines 137-143: a record under foreign IPs only
InConflict(dns, b) == dns[b] # {} /\ ~Intersects(fedIPs, dns[b])

\* lines 172-180: the records the pass deletes
Stale(dns, b) == b \notin bucketsSet /\ dns[b] # {} /\ Intersects(fedIPs, dns[b])

PutErrorsIgnored == FALSE

\* lines 159-164: a dns.Put returned an error
PutsFailed == fedPutFailed # {}

FedInit ==
    /\ RotIdle
    /\ DelIdle
    /\ FanIdle
    /\ BktIdle
    /\ KrIdle
    /\ ErrIdle
    /\ ScanIdle
    /\ PostIdle
    /\ FltIdle
    /\ fedpc = "start"
    /\ fedLocal \in SUBSET Buckets
    /\ fedDNS \in [Buckets -> SUBSET Hosts]
    /\ fedIPs \in SUBSET Hosts \ {{}}
    /\ dnsBucketsNil \in BOOLEAN
    /\ dnsBucketsNil => NoRecords(fedDNS)
    /\ domainMissing \in BOOLEAN
    /\ bucketsSet = {}
    /\ bucketsToBeUpdated = {}
    /\ bucketsInConflict = {}
    /\ fedPuts = {}
    /\ fedPutFailed = {}
    /\ fedLogged = {}
    /\ fedDeletes = {}

\* lines 91-145: nothing is done without local buckets; else the DNS
\* directory is listed (a listing error ends the pass) and, unless the listing
\* is nil, the local buckets are sorted into those to update and those in
\* conflict
FedList ==
    /\ fedpc = "start"
    /\ \E listed \in BOOLEAN :
         IF fedLocal = {}
         THEN fedpc' = "done"
                 /\ UNCHANGED <<bucketsSet, bucketsToBeUpdated, bucketsInConflict>>
         ELSE IF ~listed
         THEN fedpc' = "aborted"
                 /\ UNCHANGED <<bucketsSet, bucketsToBeUpdated, bucketsInConflict>>
         ELSE /\ fedpc' = "put"
              /\ IF dnsBucketsNil
                 THEN UNCHANGED <<bucketsSet, bucketsToBeUpdated, bucketsInConflict>>
                 ELSE /\ bucketsSet' = fedLocal
                      /\ bucketsToBeUpdated' =
                             { b \in fedLocal : NeedsUpdate(fedDNS, b) }
                      /\ bucketsInConflict' =
                             { b \in fedLocal : ~NeedsUpdate(fedDNS, b)
                                                   /\ InConflict(fedDNS, b) }
    /\ UNCHANGED <<othersOfFed, fedLocal, fedDNS, fedIPs, dnsBucketsNil, domainMissing, fedPuts,
                   fedPutFailed, fedLogged, fedDeletes>>

\* lines 148-156: one of the concurrent dns.Put calls
FedPut(b) ==
    /\ fedpc = "put"
    /\ b \in bucketsToBeUpdated \ fedPuts
    /\ fedPuts' = fedPuts \cup {b}
    /\ \E ok \in BOOLEAN :
         fedPutFailed' = IF ok THEN fedPutFailed ELSE fedPutFailed \cup {b}
    /\ UNCHANGED <<othersOfFed, fedpc, fedLocal, fedDNS, fedIPs, dnsBucketsNil, domainMissing, bucketsSet,
                   bucketsToBeUpdated, bucketsInConflict, fedLogged, fedDeletes>>

\* lines 159-168: all dns.Put calls have returned; an error ends the pass,
\* else the conflicts are logged
FedAfterPuts ==
    /\ fedpc = "put"
    /\ fedPuts = bucketsToBeUpdated
    /\ IF PutsFailed
       THEN fedpc' = "aborted" /\ UNCHANGED fedLogged
       ELSE fedpc' = "delete" /\ fedLogged' = bucketsInConflict
    /\ UNCHANGED <<othersOfFed, fedLocal, fedDNS, fedIPs, dnsBucketsNil, domainMissing, bucketsSet,
                   bucketsToBeUpdated, bucketsInConflict, fedPuts, fedPutFailed, fedDeletes>>

\* lines 172-192: one of the concurrent dns.Delete calls
FedDelete(b) ==
    /\ fedpc = "delete"
    /\ Stale(fedDNS, b)
    /\ b \notin fedDeletes
    /\ fedDeletes' = fedDeletes \cup {b}
    /\ UNCHANGED <<othersOfFed, fedpc, fedLocal, fedDNS, fedIPs, dnsBucketsNil, domainMissing, bucketsSet,
                   bucketsToBeUpdated, bucketsInConflict, fedPuts, fedPutFailed, fedLogged>>

\* lines 193-194: all dns.Delete calls have returned
FedReturn ==
    /\ fedpc = "delete"
    /\ \A b \in Buckets : Stale(fedDNS, b) => b \in fedDeletes
    /\ fedpc' = "done"
    /\ UNCHANGED <<othersOfFed, fedLocal, fedDNS, fedIPs, dnsBucketsNil, domainMissing, bucketsSet,
                   bucketsToBeUpdated, bucketsInConflict, fedPuts, fedPutFailed, fedLogged,
                   fedDeletes>>

FedNext ==
    \/ FedList
    \/ \E b \in Buckets : FedPut(b)
    \/ FedAfterPuts
    \/ \E b \in Buckets : FedDelete(b)
    \/ FedReturn

SpecFederate == FedInit /\ [][FedNext]_vars

\* ------------------------------------------------------- toStorageErr steps

\* strings.Contains(err.Error(), piece)
Contains(text, piece) == \E i \in 1..Len(text) : text[i] = piece

\* lines 45-69
isNetworkError(err) ==
    /\ err # NilError
    /\ \/ err.kind = "down"
       \/ Contains(err.text, ErrServerClosed)
       \/ Contains(err.text, IdleClosed)

\* the first case of the switch of lines 83-132 whose text is the error's, 0
\* for none
RECURSIVE CaseFrom(_, _)
CaseFrom(text, i) ==
    IF i > Len(StorageErrors) THEN 0
    ELSE IF text = <<ErrorText[FieldOf(StorageErrors[i])]>> THEN i
    ELSE CaseFrom(text, i + 1)

StaleKept(e) == Singleton(e)

\* lines 84-131: what a case returns
Returned(e) ==
    IF e = "errDiskStale" THEN Singleton("errDiskNotFound") ELSE Singleton(e)

\* lines 74-134
toStorageErr(err) ==
    IF err = NilError THEN NilError
    ELSE IF isNetworkError(err) THEN Singleton("errDiskNotFound")
    ELSE IF CaseFrom(err.text, 1) # 0
         THEN Returned(StorageErrors[CaseFrom(err.text, 1)])
         ELSE err

\* the error the peer's answer carries: only the text travels
stringify(err) ==
    IF err = NilError THEN NilError ELSE [kind |-> "plain", text |-> err.text]

ErrInit ==
    /\ RotIdle
    /\ DelIdle
    /\ FanIdle
    /\ BktIdle
    /\ KrIdle
    /\ FedIdle
    /\ ScanIdle
    /\ PostIdle
    /\ FltIdle
    /\ tspc = "in"
    /\ tsIn \in ErrorValues
    /\ tsOut = NilError
    /\ tsBack = NilError

\* the server side converts its error
ErrConvert ==
    /\ tspc = "in"
    /\ tsOut' = toStorageErr(tsIn)
    /\ tspc' = "out"
    /\ UNCHANGED <<othersOfErr, tsIn, tsBack>>

\* the text travels and the client side converts the error it carries
ErrRoundTrip ==
    /\ tspc = "out"
    /\ tsBack' = toStorageErr(stringify(tsOut))
    /\ tspc' = "back"
    /\ UNCHANGED <<othersOfErr, tsIn, tsOut>>

ErrNext ==
    \/ ErrConvert
    \/ ErrRoundTrip

SpecStorageErr == ErrInit /\ [][ErrNext]_vars

\* ---------------------------------------------------------- NSScanner steps

ScanInit ==
    /\ RotIdle
    /\ DelIdle
    /\ FanIdle
    /\ BktIdle
    /\ KrIdle
    /\ FedIdle
    /\ ErrIdle
    /\ PostIdle
    /\ FltIdle
    /\ scpc = "call"
    /\ scCtxDone = FALSE
    /\ scN = 0
    /\ scSent = 0
    /\ scClosed = 0
    /\ scLate = FALSE
    /\ scRet = NoReturn

\* line 211 and a return statement: the deferred close(updates) runs as the
\* function returns
ScanReturn(cache, err) ==
    /\ scpc' = "returned"
    /\ scRet' = [cache |-> cache, err |-> err]
    /\ scClosed' = scClosed + 1

SelectNoCtxCase == FALSE

\* line 249: the case <-ctx.Done() of the select can be taken
SelectCtxDone == scCtxDone

\* line 256: a clean end of the stream is no error of the final decode
FinalErr(err) == IF err = "io.EOF" THEN "nil" ELSE err

\* lines 212-228: the call is made; its error is returned with the old cache
ScanCall ==
    /\ scpc = "call"
    /\ \E err \in {"nil", "errDiskNotFound"} :
         IF err # "nil"
         THEN ScanReturn("cache", err)
         ELSE scpc' = "bool" /\ UNCHANGED <<scRet, scClosed>>
    /\ UNCHANGED <<othersOfScan, scCtxDone, scN, scSent, scLate>>

\* lines 233-241: the flag that tells an update from the final cache is read
ScanReadBool ==
    /\ scpc = "bool"
    /\ \/ /\ scN < MaxUpdates
          /\ scpc' = "decode"
          /\ UNCHANGED <<scRet, scClosed>>
       \/ /\ scpc' = "final"
          /\ UNCHANGED <<scRet, scClosed>>
       \/ \E err \in ReadErrors : ScanReturn("cache", err)
    /\ UNCHANGED <<othersOfScan, scCtxDone, scN, scSent, scLate>>

\* lines 242-247: the update is decoded
ScanDecode ==
    /\ scpc = "decode"
    /\ \/ /\ scpc' = "select"
          /\ scN' = scN + 1
          /\ UNCHANGED <<scRet, scClosed>>
       \/ /\ \E err \in ReadErrors : ScanReturn("cache", err)
          /\ UNCHANGED scN
    /\ UNCHANGED <<othersOfScan, scCtxDone, scSent, scLate>>

\* line 250: the receiver of updates takes the update
ScanSend ==
    /\ scpc = "select"
    /\ scpc' = "bool"
    /\ scSent' = scSent + 1
    /\ scLate' = (scLate \/ scClosed > 0)
    /\ UNCHANGED <<othersOfScan, scCtxDone, scN, scClosed, scRet>>

\* line 249: the context is done, the update is dropped
ScanSkip ==
    /\ scpc = "select"
    /\ SelectCtxDone
    /\ scpc' = "bool"
    /\ UNCHANGED <<othersOfScan, scCtxDone, scN, scSent, scClosed, scLate, scRet>>

\* lines 253-259: the final cache is decoded and returned
ScanDecodeCache ==
    /\ scpc = "final"
    /\ \/ ScanReturn("newCache", FinalErr("nil"))
       \/ \E err \in ReadErrors : ScanReturn("incomplete", FinalErr(err))
    /\ UNCHANGED <<othersOfScan, scCtxDone, scN, scSent, scLate>>

\* the caller cancels ctx
ScanCancel ==
    /\ scpc \notin {"idle", "returned"}
    /\ ~scCtxDone
    /\ scCtxDone' = TRUE
    /\ UNCHANGED <<othersOfScan, scpc, scN, scSent, scClosed, scLate, scRet>>

\* the steps NSScanner takes without anyone receiving from updates
ScanAlone ==
    \/ ScanCall
    \/ ScanReadBool
    \/ ScanDecode
    \/ ScanSkip
    \/ ScanDecodeCache

ScanNext ==
    \/ ScanCall
    \/ ScanReadBool
    \/ ScanDecode
    \/ ScanSend
    \/ ScanSkip
    \/ ScanDecodeCache
    \/ ScanCancel

SpecScanner == ScanInit /\ [][ScanNext]_vars

\* every read of the response returns, with a value or an error, and the
\* goroutine of NSScanner is scheduled; nobody needs to receive from updates
SpecScannerLive == ScanInit /\ [][ScanNext]_vars /\ WF_vars(ScanAlone)

\* ---------------------------------- PostPolicyBucketHandler, encryption steps

\* lines 1182-1185: the bucket's encryption configuration is applied to a form
\* that asks for none
Applied(form, bucketSSE) == IF form = "none" THEN bucketSSE ELSE form

\* line 1196: crypto.Requested
Requested(form) == form # "none"

\* line 1202
SSECWithReplication == pHdrSSEC /\ pRepl

PostInit ==
    /\ RotIdle
    /\ DelIdle
    /\ FanIdle
    /\ BktIdle
    /\ KrIdle
    /\ FedIdle
    /\ ErrIdle
    /\ ScanIdle
    /\ FltIdle
    /\ ppc = "sse"
    /\ pForm \in SSEKinds
    /\ pHdrSSEC \in BOOLEAN
    /\ pHdrCopy \in BOOLEAN
    /\ pBucketSSE \in SSEKinds \ {"SSE-C"}
    /\ pRepl \in BOOLEAN
    /\ pEntries \in 0..MaxFanOut
    /\ pKind = "none"
    /\ pWrites = 0
    /\ pResp = ""

\* lines 1182-1205: the checks made when the form, after the bucket's
\* configuration, asks for encryption
PostCheckSSE ==
    /\ ppc = "sse"
    /\ IF ~Requested(Applied(pForm, pBucketSSE))
       THEN ppc' = "write" /\ UNCHANGED pResp
       ELSE IF pHdrCopy
       THEN ppc' = "done" /\ pResp' = "errInvalidEncryptionParameters"
       ELSE IF SSECWithReplication
       THEN ppc' = "done" /\ pResp' = "errInvalidEncryptionParametersSSEC"
       ELSE ppc' = "key" /\ UNCHANGED pResp
    /\ UNCHANGED <<othersOfPost, pForm, pHdrSSEC, pHdrCopy, pBucketSSE, pRepl, pEntries,
                   pKind, pWrites>>

\* lines 1207-1261: the kind of encryption is read off the form and its key
\* parsed
PostParseKey ==
    /\ ppc = "key"
    /\ pKind' = Applied(pForm, pBucketSSE)
    /\ \E ok \in BOOLEAN :
         IF ok \/ pKind' = "SSE-S3"
         THEN ppc' = "write" /\ UNCHANGED pResp
         ELSE ppc' = "done" /\ pResp' = "InvalidRequest"
    /\ UNCHANGED <<othersOfPost, pForm, pHdrSSEC, pHdrCopy, pBucketSSE, pRepl, pEntries,
                   pWrites>>

\* lines 1263-1360: fanOutPutObject for one entry, or the one PutObject
PostWrite ==
    /\ ppc = "write"
    /\ pWrites < (IF pEntries = 0 THEN 1 ELSE pEntries)
    /\ pWrites' = pWrites + 1
    /\ UNCHANGED <<othersOfPost, ppc, pForm, pHdrSSEC, pHdrCopy, pBucketSSE, pRepl, pEntries,
                   pKind, pResp>>

\* the writes are made and the handler answers
PostRespond ==
    /\ ppc = "write"
    /\ pWrites = (IF pEntries = 0 THEN 1 ELSE pEntries)
    /\ ppc' = "done"
    /\ pResp' = "OK"
    /\ UNCHANGED <<othersOfPost, pForm, pHdrSSEC, pHdrCopy, pBucketSSE, pRepl, pEntries,
                   pKind, pWrites>>

PostNext ==
    \/ PostCheckSSE
    \/ PostParseKey
    \/ PostWrite
    \/ PostRespond

SpecPostPolicy == PostInit /\ [][PostNext]_vars

\* ----------------------------------------------------------- the walk filter

\* wildcard.Match
WildcardMatch(pattern, value) == pattern = "*" \/ pattern = value

\* strings.EqualFold on the keys that occur
FoldKey(k) == IF k = "X-Amz-Meta-M" THEN "x-amz-meta-m" ELSE k

\* lines 100-108
Match(kv, ikv) ==
    IF kv.Key = "" /\ kv.Value = "" THEN TRUE
    ELSE IF FoldKey(kv.Key) = FoldKey(ikv.Key) THEN WildcardMatch(kv.Value, ikv.Value)
    ELSE FALSE

\* tags.ParseObjectTags and ToMap: the tags of a tagging string, or an error
ParseFails(tagStr) == tagStr = "t"

TagMap(tagStr) ==
    CASE tagStr = "t=v" -> {[Key |-> "t", Value |-> "v"]}
      [] tagStr = "t=w" -> {[Key |-> "t", Value |-> "w"]}
      [] OTHER -> {}

\* lines 403-406: the entries of info.Metadata the metadata filter looks at
MetaEntries(info) ==
    IF info.Meta = "" THEN {} ELSE {[Key |-> "X-Amz-Meta-M", Value |-> info.Meta]}

\* strings.TrimPrefix(v, crypto.ARNPrefix)
TrimARN(v) == IF v = "arn:aws:kms:key1" THEN "key1" ELSE v

AnyMatch(kvs, entries) ==
    \E i \in 1..Len(kvs) : \E e \in entries : Match(kvs[i], e)

\* lines 356-423: TRUE when the walk keeps the object
skip(f, info) ==
    IF f.OlderThan > 0 /\ Now - info.ModTime < f.OlderThan THEN FALSE
    ELSE IF f.NewerThan > 0 /\ Now - info.ModTime >= f.NewerThan THEN FALSE
    ELSE IF f.CreatedAfter # 0 /\ f.CreatedAfter < info.ModTime THEN FALSE
    ELSE IF f.CreatedBefore # 0 /\ f.CreatedBefore > info.ModTime THEN FALSE
    ELSE IF Len(f.Tags) > 0
         THEN IF info.Tagging # "" /\ ParseFails(info.Tagging) THEN FALSE
              ELSE AnyMatch(f.Tags, TagMap(info.Tagging))
    ELSE IF Len(f.Metadata) > 0
         THEN AnyMatch(f.Metadata, MetaEntries(info))
    ELSE IF f.KMSKeyID # "" /\ info.KmsID # "" /\ TrimARN(info.KmsID) # f.KMSKeyID
         THEN FALSE
    ELSE TRUE

FltInit ==
    /\ RotIdle
    /\ DelIdle
    /\ FanIdle
    /\ BktIdle
    /\ KrIdle
    /\ FedIdle
    /\ ErrIdle
    /\ ScanIdle
    /\ PostIdle
    /\ fltpc = "walk"
    /\ fltFilter \in Filters
    /\ fltInfo \in FileInfos
    /\ fltKept = FALSE

\* the walk hands the object to the WalkFilter of line 442
FltApply ==
    /\ fltpc = "walk"
    /\ fltKept' = skip(fltFilter, fltInfo)
    /\ fltpc' = "done"
    /\ UNCHANGED <<othersOfFlt, fltFilter, fltInfo>>

SpecFilter == FltInit /\ [][FltApply]_vars

\* ------------------------------------------------------- KeyRotate steps

\* lines 157-165: base64.StdEncoding.DecodeString, then json.Unmarshal
DecodeContext(c) ==
    CASE c = "e30=" -> [err |-> "", kv |-> {}]
      [] c = "eyJhIjoiMSJ9" -> [err |-> "", kv |-> {<<"a", "1">>}]
      [] OTHER -> [err |-> "CorruptInputError", kv |-> {}]

\* line 150
HasSpaces(k) == k = " key1"

\* lines 146-177.  The receiver e is a value: the method works on a copy of
\* the caller's struct.  The result holds the error returned and the copy as
\* it is when the method returns.
Validate(e, kmsOn, genErr) ==
    IF e.Type # "sse-s3" /\ e.Type # "sse-kms"
    THEN [err |-> "errInvalidArgument", e |-> e]
    ELSE IF e.Type = "sse-kms" /\ HasSpaces(e.Key)
    THEN [err |-> "ErrInvalidEncryptionKeyID", e |-> e]
    ELSE IF e.Type = "sse-kms" /\ kmsOn
    THEN LET d == IF e.Context # "" THEN DecodeContext(e.Context)
                  ELSE [err |-> "", kv |-> {}]
             set == [e EXCEPT !.kmsContext = Context(d.kv)]
         IN  IF d.err # "" THEN [err |-> d.err, e |-> e]
             ELSE IF genErr THEN [err |-> "GenerateKeyError", e |-> set]
             ELSE [err |-> "", e |-> set]
    ELSE [err |-> "", e |-> e]

\* the job as it was submitted: kmsContext is not part of the document
KrInit ==
    /\ RotIdle
    /\ DelIdle
    /\ FanIdle
    /\ BktIdle
    /\ FedIdle
    /\ ErrIdle
    /\ ScanIdle
    /\ PostIdle
    /\ FltIdle
    /\ krpc = "walked"
    /\ krEnc \in [Type : {"sse-s3", "sse-kms"}, Key : JobKeys, Context : JobContexts,
                  kmsContext : {NilContext}]
    /\ krKMS \in BOOLEAN
    /\ krWalk \in ObjInfos
    /\ krStore = krWalk
    /\ krObj = NoObjInfo
    /\ krCall = NoCall
    /\ krLocked = FALSE
    /\ krRet = ""

\* between the walk and the lock another client rewrites the object with
\* another kind of encryption
KrClientOverwrite ==
    /\ krpc = "walked"
    /\ ~krStore.DeleteMarker
    /\ \E e \in ObjectEncs \ {krStore.Enc} : krStore' = [krStore EXCEPT !.Enc = e]
    /\ UNCHANGED <<othersOfKr, krpc, krEnc, krKMS, krWalk, krObj, krCall, krLocked, krRet>>

\* ... or deletes it, which leaves a delete marker
KrClientDelete ==
    /\ krpc = "walked"
    /\ ~krStore.DeleteMarker
    /\ krStore' = [krStore EXCEPT !.DeleteMarker = TRUE]
    /\ UNCHANGED <<othersOfKr, krpc, krEnc, krKMS, krWalk, krObj, krCall, krLocked, krRet>>

\* ... or deletes the version on a replicated bucket: its purge is pending
KrClientPurge ==
    /\ krpc = "walked"
    /\ ~krStore.Purge
    /\ krStore' = [krStore EXCEPT !.Purge = TRUE]
    /\ UNCHANGED <<othersOfKr, krpc, krEnc, krKMS, krWalk, krObj, krCall, krLocked, krRet>>

\* lines 249-273: the checks on objInfo, then the namespace lock
KrCall ==
    /\ krpc = "walked"
    /\ LET sseKMS == krWalk.Enc = "kms"
           sseS3 == krWalk.Enc = "s3"
       IN  IF krWalk.DeleteMarker \/ krWalk.Purge
           THEN krRet' = "nil" /\ krpc' = "done" /\ UNCHANGED krLocked
           ELSE IF ~sseKMS /\ ~sseS3
           THEN /\ krRet' = "errInvalidEncryptionParameters"
                /\ krpc' = "done"
                /\ UNCHANGED krLocked
           ELSE IF sseKMS /\ krEnc.Type = "sse-s3"
           THEN /\ krRet' = "errInvalidEncryptionParameters"
                /\ krpc' = "done"
                /\ UNCHANGED krLocked
           ELSE \E got \in BOOLEAN :
                   IF got
                   THEN krLocked' = TRUE /\ krpc' = "locked" /\ UNCHANGED krRet
                   ELSE krRet' = "OperationTimedOut" /\ krpc' = "done" /\ UNCHANGED krLocked
    /\ UNCHANGED <<othersOfKr, krEnc, krKMS, krWalk, krStore, krObj, krCall>>

\* lines 275-324, under the lock: GetObjectInfo, Validate, rotateKey and
\* CopyObject; the lock is released on return (line 273).  GetObjectInfo
\* fails for a delete marker.
KrLocked ==
    /\ krpc = "locked"
    /\ \E getErr, genErr, rotErr, copyErr \in BOOLEAN :
         LET sseKMS == krWalk.Enc = "kms"
             sseS3 == krWalk.Enc = "s3"
             rekey == (sseKMS \/ sseS3) /\ krEnc.Type = "sse-kms"
             v == Validate(krEnc, krKMS, genErr)
         IN  /\ krObj' = krStore
             /\ IF getErr \/ krStore.DeleteMarker
                THEN krRet' = "GetObjectInfoError" /\ UNCHANGED krCall
                ELSE IF rekey /\ v.err # ""
                THEN krRet' = v.err /\ UNCHANGED krCall
                ELSE /\ krCall' = [called |-> TRUE,
                                   newKeyID |-> IF rekey THEN TrimARN(krEnc.Key) ELSE "",
                                   newKeyContext |-> IF rekey THEN krEnc.kmsContext
                                                     ELSE NilContext]
                     /\ krRet' = IF rotErr THEN "rotateKeyError"
                                 ELSE IF copyErr THEN "CopyObjectError"
                                 ELSE "nil"
    /\ krLocked' = FALSE
    /\ krpc' = "done"
    /\ UNCHANGED <<othersOfKr, krEnc, krKMS, krWalk, krStore>>

KrNext ==
    \/ KrClientOverwrite
    \/ KrClientDelete
    \/ KrClientPurge
    \/ KrCall
    \/ KrLocked

SpecKeyRotate == KrInit /\ [][KrNext]_vars

\* ================================================================ claims
\* an entry the job has to rotate: kept by the filter and SSE-S3/SSE-KMS
Eligible(o) == passes[o] /\ Encrypted(o)

\* the retry budget of the job definition
Budget == IF attemptsCfg > 0 THEN attemptsCfg ELSE batchKeyRotateJobDefaultRetries

\* C1: a run that ends Complete (ObjectsFailed = 0) has rotated every entry
\* that passes the filter and is SSE-S3 or SSE-KMS encrypted.
C1_CompleteMeansAllRotated ==
    (pc = "finalized" /\ ri.Complete) => \A o \in Entries : Eligible(o) => rotated[o]

\* C2: a run resumed after a kill walks from the checkpointed cursor without
\* skipping an entry that is still to be rotated: while no failure has been
\* counted, every eligible entry that is not rotated yet lies in the resumed walk.
C2_ResumeSkipsNothing ==
    (kills > 0 /\ pc = "walk" /\ Len(ckpt) = 1 /\ ri.ObjectsFailed = 0)
        => \A o \in Entries : (Eligible(o) /\ ~rotated[o]) => Name(o) >= lastObject

\* C3: the persisted cursor never moves backwards: every checkpoint written
\* carries a cursor at or after the one it replaces.
C3_CursorNeverRegresses ==
    [][(Len(ckpt) = 1 /\ Len(ckpt') = 1) => ckpt'[1].Object >= ckpt[1].Object]_vars

\* C4: in every run, resumed ones included, a task that gives up (its retry
\* loop ends without a success) has called KeyRotate exactly `attempts` times.
C4_GivesUpAfterBudget ==
    [][\A o \in Entries :
          (kills' = kills /\ task[o].st = "start" /\ task'[o].st = "idle")
              => task[o].attempts - 1 = Budget]_vars

\* C5: at finalization Complete is ObjectsFailed = 0, Failed is its negation,
\* and the final checkpoint and the notification body carry these values.
C5_FinalFlags ==
    pc = "finalized"
        => /\ ri.Complete = (ri.ObjectsFailed = 0)
           /\ ri.Failed = ~ri.Complete
           /\ ckpt = <<ri>>
           /\ notified = <<ri>>

C5_Witness == pc = "finalized" /\ ri.Failed /\ ri.ObjectsFailed = 1

\* C6: the number of entries with a rotation in progress never exceeds the
\* pool size; the dispatch loop waits while the pool is full.
C6_PoolCeiling == Cardinality(InFlight) <= workerSize

C6_Witness ==
    /\ pc = "walk"
    /\ workerSize >= 1
    /\ Cardinality(InFlight) = workerSize
    /\ HasResult
    /\ Encrypted(NextResult)

\* C7: the job is finalized (flags computed, final checkpoint, notification)
\* only when no dispatched entry has a task left, so no outcome is recorded later.
C7_FinalizeAfterDrain ==
    (pc \in {"finalized", "done"} \/ Len(notified) = 1) => InFlight = {}

C7_Witness ==
    /\ pc = "finalized"
    /\ ri.ObjectsFailed > 0
    /\ \E o \in Entries : rotated[o]

\* C8: a KeyRotate that is between GetLock and Unlock holds the namespace lock
\* of its object, and no other rotation of that object is there with it.
C8_RotateUnderLock ==
    \A o \in Entries :
        task[o].st = "locked"
            => /\ nsLock[Name(o)] = o
               /\ \A p \in Entries \ {o} :
                      Name(p) = Name(o) => task[p].st # "locked"

C8_Witness ==
    \E o, p \in Entries :
        /\ o # p
        /\ Name(o) = Name(p)
        /\ task[o].st = "locked"
        /\ task[p].st = "start"
        /\ task[p].attempts = 2

Answered == dpc = "done" /\ dResp.code = ""

RequestKeys == { dReq[i] : i \in DOMAIN dReq }

\* C10: the Deleted and Error entries of the response are as many as the
\* distinct (name, versionID) pairs of the request, and each is about one of them.
C10_OneEntryPerDistinctKey ==
    Answered
        => /\ Len(dResp.Deleted) + Len(dResp.Errors) = Cardinality(RequestKeys)
           /\ \A i \in DOMAIN dResp.Deleted :
                  \E k \in RequestKeys : /\ dResp.Deleted[i].ObjectName = k.ObjectName
                                         /\ dResp.Deleted[i].VersionID = k.VersionID
           /\ \A i \in DOMAIN dResp.Errors :
                  \E k \in RequestKeys : /\ dResp.Errors[i].Key = k.ObjectName
                                         /\ dResp.Errors[i].VersionID = k.VersionID

\* ---- entries of a multi-delete, as the request and the answers of
\* authorization and retention enforcement determine them
SeenOf(i) == CHOOSE e \in dSeen : e.obj = dReq[i]

MalformedVersion(v) == v # "" /\ v # nullVersionID /\ ~IsUUID(v)

FailedEntry(i) ==
    \/ SeenOf(i).code # "ErrNone"
    \/ MalformedVersion(dReq[i].VersionID)
    \/ SeenOf(i).refused

Admitted(i) == ~FailedEntry(i)

KeyOf(i) == DirVersioned(dReq[i])

\* the request index at which an admitted (name, versionID) first appeared
FirstAdmitted(k) ==
    CHOOSE i \in DOMAIN dReq :
        /\ Admitted(i) /\ KeyOf(i) = k
        /\ \A j \in 1 .. i - 1 : ~(Admitted(j) /\ KeyOf(j) = k)

Increasing(f) == \A a, b \in DOMAIN f : a < b => f[a] < f[b]

\* C11: the outcome DeleteObjects returns for an entry of the delete list is
\* in the result slot of the request index at which its (name, versionID)
\* first appeared, and the Deleted list and the Errors list are the slots'
\* contents in request order, whatever the order of the delete list.
C11_SlotOfFirstIndex ==
    Answered =>
        /\ \A p \in DOMAIN deleteList :
              LET k == deleteList[p]
                  slot == deleteResults[FirstAdmitted(k)]
              IN  IF dErrs[p] \in {"nil", "ObjectNotFound", "VersionNotFound"}
                  THEN slot.delInfo = DeletedObjectOf(k) /\ slot.errInfo = NoError
                  ELSE slot.errInfo.Code # "" /\ slot.errInfo.Key = k.ObjectName
                          /\ slot.errInfo.VersionID = k.VersionID
        /\ \E f \in [DOMAIN dResp.Deleted -> DOMAIN dReq] :
              /\ Increasing(f)
              /\ \A a \in DOMAIN f : /\ deleteResults[f[a]].errInfo = NoError
                                     /\ dResp.Deleted[a] = deleteResults[f[a]].delInfo
        /\ \E f \in [DOMAIN dResp.Errors -> DOMAIN dReq] :
              /\ Increasing(f)
              /\ \A a \in DOMAIN f : /\ deleteResults[f[a]].errInfo # NoError
                                     /\ dResp.Errors[a] = deleteResults[f[a]].errInfo

\* two entries deleted, handed to the object layer in the reverse of request order
C11_Witness ==
    /\ Answered
    /\ Len(deleteList) = 2
    /\ FirstAdmitted(deleteList[1]) > FirstAdmitted(deleteList[2])
    /\ Len(dResp.Deleted) = 2
    /\ dResp.Deleted[1] = DeletedObjectOf(deleteList[2])

\* the request indexes whose slot ends up in the Errors list
ErrorSlots ==
    { i \in DOMAIN dReq :
        \/ FailedEntry(i)
        \/ \E p \in DOMAIN deleteList :
              /\ FirstAdmitted(deleteList[p]) = i
              /\ dErrs[p] \notin {"nil", "ObjectNotFound", "VersionNotFound"} }

\* C12: an entry that fails authorization, has a malformed version ID or is
\* refused by retention enforcement contributes nothing to the list passed to
\* DeleteObjects, and the Errors list carries its DeleteError at its request
\* position.
C12_FailedEntryNotDeleted ==
    Answered =>
        /\ \A e \in objectsToDelete : Admitted(e.idx) /\ KeyOf(e.idx) = e.obj
        /\ \A p \in DOMAIN deleteList : deleteList[p] \in MapKeys(objectsToDelete)
        /\ \A i \in DOMAIN dReq :
              FailedEntry(i) =>
                 LET rank == Cardinality({ j \in ErrorSlots : j <= i })
                     err == dResp.Errors[rank]
                 IN  /\ rank <= Len(dResp.Errors)
                     /\ err.Key = dReq[i].ObjectName
                     /\ err.Code # ""
                     /\ SeenOf(i).code # "ErrNone" =>
                            err = DeleteErrorOf(SeenOf(i).code, dReq[i])
                     /\ (SeenOf(i).code = "ErrNone"
                            /\ MalformedVersion(dReq[i].VersionID)) =>
                            err = DeleteErrorOf("ErrNoSuchVersion", dReq[i])

\* an entry with a malformed version ID, followed by an entry that is deleted
C12_Witness ==
    /\ Answered
    /\ Len(dReq) = 2
    /\ MalformedVersion(dReq[1].VersionID)
    /\ deleteList = <<KeyOf(2)>>
    /\ Len(dResp.Errors) = 1
    /\ Len(dResp.Deleted) = 1

\* C13: an authorization result of SignatureDoesNotMatch or InvalidAccessKeyID
\* ends the request with that single error; DeleteObjects is never called.
C13_SignatureFailureAborts ==
    \A e \in dSeen :
        e.code \in {"ErrSignatureDoesNotMatch", "ErrInvalidAccessKeyID"}
            => /\ dpc = "done"
               /\ dResp = [NoResponse EXCEPT !.code = APICode(e.code)]
               /\ ~dCalled
               /\ deleteList = <<>>

\* the failing entry is preceded by an entry that had been admitted
C13_Witness ==
    /\ dpc = "done"
    /\ dResp.code = "InvalidAccessKeyId"
    /\ objectsToDelete # {}

\* C14: a client disconnect does not cancel the bulk call: DeleteObjects gives
\* up on no entry, and returns with an outcome for every entry of the list.
C14_BulkCallDetached ==
    /\ \A p \in DOMAIN dErrs : dErrs[p] # "Canceled"
    /\ dCalled => dCtx = "background"
    /\ Answered => Len(dErrs) = Len(deleteList)

\* the client left during the bulk call
C14_Witness ==
    /\ Answered
    /\ dGone = "bulk"
    /\ Len(deleteList) = 2
    /\ Len(dResp.Deleted) = 2

\* answers given before the body is read, and before the list is looked at
HeaderVerdicts == {"XMinioServerNotInitialized"}

EarlierVerdicts == HeaderVerdicts \cup {"InternalError", "NoSuchBucket"}

\* C15: a list of 0 or more than maxDeleteList entries is answered MalformedXML
\* and DeleteObjects is not called; a request without Content-MD5, with
\* Content-Length <= 0 or with Content-Length above maxBodySize is rejected
\* (MissingContentMD5, MissingContentLength, EntityTooLarge) without the body
\* being read.  Rejections that come earlier in the handler take precedence.
C15_SizeChecks ==
    LET badHeader == IF ~dHdr.md5 THEN "MissingContentMD5"
                     ELSE IF dHdr.length <= 0 THEN "MissingContentLength"
                     ELSE IF dHdr.length > 2 * 100000 * 1024 THEN "EntityTooLarge"
                     ELSE ""
    IN  /\ (dpc # "idle" /\ badHeader # "") =>
              /\ dpc \in {"start", "done"}
              /\ dReq = <<>> /\ ~dCalled
              /\ dpc = "done" => dResp.code \in HeaderVerdicts \cup {badHeader}
        /\ (dpc \notin {"idle", "start", "parse"} /\ badHeader = ""
               /\ (Len(dReq) = 0 \/ Len(dReq) > maxDeleteList)) =>
              /\ dpc = "done"
              /\ dResp.code \in EarlierVerdicts \cup {"MalformedXML"}
              /\ ~dCalled

\* a list one entry too long
C15_Witness ==
    /\ dpc = "done"
    /\ Len(dReq) = maxDeleteList + 1
    /\ dResp.code = "MalformedXML"

\* ---- fan-out
\* the handler has ended after the batches: it returned, or it panicked
FanEnded == fpc \in {"done", "panic"}

\* C16: when the handler of a fan-out request has ended after its batches, it
\* has written one response record per entry of the fan-out list, whatever the
\* length of the list and whichever entries failed.
C16_OneRecordPerEntry ==
    FanEnded => /\ Len(fOut) = fN
                /\ \A e \in 1 .. fN : \E i \in DOMAIN fOut : fOut[i].Key = e

\* C17: the tasks that run belong to the one batch of the fanOutPutObject call
\* in progress, every batch has at most W entries, the batches follow the
\* input order, and the records are collected and written in input order.
C17_SerialBatchesInOrder ==
    /\ \A e \in FanEntries :
          fTask[e] = "running" =>
              /\ fpc = "call"
              /\ \E i \in DOMAIN fBatch : fBatch[i] = e
    /\ fpc = "call" => fBatch = fCalls[Len(fCalls)]
    /\ \A c \in DOMAIN fCalls :
          /\ Len(fCalls[c]) <= fW
          /\ \A i \in DOMAIN fCalls[c] : fCalls[c][i] = (c - 1) * fW + i
    /\ \A i \in DOMAIN fanOutResp : fanOutResp[i].Key = i
    /\ \A i \in DOMAIN fOut : fOut[i] = fanOutResp[i]

\* three entries in two batches, all written
C17_Witness ==
    /\ fpc = "done"
    /\ fN = 3
    /\ Len(fCalls) = 2
    /\ Len(fCalls[1]) = 2
    /\ Len(fOut) = 3

\* C18: the input is read once, and every object written by a fan-out
\* request, in whichever batch, holds the bytes B of the input.
C18_SameBytesEverywhere ==
    /\ fPos <= fSize
    /\ \A e \in FanEntries :
          IF fTask[e] = "ok"
          THEN fStore[e] = [from |-> 1, len |-> fSize] /\ e <= fN
          ELSE fStore[e] = NoBytes

\* objects written by the first and by the second batch
C18_Witness ==
    /\ Len(fCalls) = 2
    /\ fSize = maxFanOutSize
    /\ fTask[1] = "ok"
    /\ fTask[fN] = "ok"
    /\ \E i \in DOMAIN fCalls[2] : fCalls[2][i] = fN

\* C19: an input of more than 16 MiB ends the request with an error before
\* fanOutPutObject is called: no object is written.
C19_OversizeRejected ==
    fSize > 16 * 1024 * 1024 =>
        /\ fpc \in {"start", "error"}
        /\ fCalls = <<>>
        /\ \A e \in FanEntries : fTask[e] = "todo" /\ fStore[e] = NoBytes
        /\ fOut = <<>>

C19_Witness == fpc = "error" /\ fSize = maxFanOutSize + 1 /\ fPos = fSize

C21_PutFailureRolledBack ==
    \A d \in Deployments :
        (bpc[d] = "done" /\ bMade[d] /\ bResp[d] # "OK")
            => /\ bEvent[d] = 0
               /\ ~bLocal[d]

\* C22: of the deployments running PutBucket for one name that no DNS record
\* held, at most one ends with the bucket created and its answer OK.
C22_OneOwner ==
    dnsOn =>
        \A d, e \in Deployments :
            (d # e /\ bIPs[d] \cap bIPs[e] = {}
                 /\ bpc[d] = "done" /\ bpc[e] = "done"
                 /\ bMade[d] /\ bResp[d] = "OK")
                => ~(bMade[e] /\ bResp[e] = "OK")

\* the local buckets the reconciliation owes a dns.Put: those without a DNS
\* record and those whose record holds some but not all of the local IPs
OwedPut ==
    { b \in fedLocal :
        \/ fedDNS[b] = {}
        \/ fedDNS[b] \cap fedIPs # {} /\ fedIPs \ fedDNS[b] # {} }

\* the records the reconciliation owes a dns.Delete: those of buckets that do
\* not exist locally and whose hosts intersect the local IPs
OwedDelete ==
    { b \in Buckets : b \notin fedLocal /\ fedDNS[b] # {} /\ fedDNS[b] \cap fedIPs # {} }

\* C23: once the dns.Put calls of a reconciliation pass have returned, dns.Put
\* was issued for exactly the local buckets that have no DNS record (also when
\* the directory holds no record at all) or whose record overlaps the local
\* IPs only partially.
C23_PutExactlyOwed ==
    fedpc \in {"delete", "done"} => fedPuts = OwedPut

\* C24: when a reconciliation pass whose dns.Put calls all succeeded has
\* returned, dns.Delete was issued for exactly the records whose bucket does not
\* exist locally and whose hosts intersect the local IPs, whatever the local
\* bucket set, the empty one included.
C24_DeleteExactlyStale ==
    (fedpc = "done" /\ fedPutFailed = {}) => fedDeletes = OwedDelete

\* C25: once a dns.Put of a reconciliation pass has returned an error, the pass
\* never reaches its deletion phase and issues no dns.Delete.
C25_PutErrorAborts ==
    fedPutFailed # {} => (fedDeletes = {} /\ fedpc \in {"put", "aborted"})

C25_Witness ==
    /\ fedpc = "aborted"
    /\ fedPutFailed # {}
    /\ OwedDelete # {}

\* C26: for a local bucket whose DNS record holds none of the local IPs, no step
\* of a reconciliation pass issues a dns.Put or a dns.Delete for it or removes
\* it from the local buckets; the pass only logs it.
C26_ConflictOnlyLogged ==
    [][\A b \in fedLocal :
          (fedDNS[b] # {} /\ fedDNS[b] \cap fedIPs = {})
              => /\ b \notin fedPuts'
                 /\ b \notin fedDeletes'
                 /\ b \in fedLocal'
                 /\ fedDNS'[b] = fedDNS[b]]_vars

C26_Witness ==
    /\ fedpc = "done"
    /\ fedPuts # {}
    /\ \E b \in fedLocal :
         /\ fedDNS[b] # {}
         /\ fedDNS[b] \cap fedIPs = {}
         /\ b \in fedLogged

\* two errors are the same when they are the same singleton or, none of them
\* being a singleton or nil, carry the same text
SameError(a, b) ==
    IF a.kind \in {"plain", "down"} /\ b.kind \in {"plain", "down"}
    THEN a.text = b.text
    ELSE a = b

\* the names of the singletons whose text is the given one
NamesOfText(text) ==
    { StorageErrors[i] : i \in { j \in 1..Len(StorageErrors) :
                                   text = <<ErrorText[FieldOf(StorageErrors[j])]>> } }

\* the text is one that isNetworkError looks for
NetworkText(text) ==
    \E i \in 1..Len(text) : text[i] \in {ErrServerClosed, IdleClosed}

\* C27: converting the error that carries the text of toStorageErr(e) yields
\* toStorageErr(e) again; an error that carries the text of a storage error is
\* converted to that singleton, errDiskStale to errDiskNotFound; an error with
\* any other text, isNetworkError not holding of it, is returned unchanged.
C27_RoundTripIdempotent ==
    tspc = "back" =>
        /\ SameError(tsBack, tsOut)
        /\ (tsIn.kind = "plain" /\ NamesOfText(tsIn.text) # {})
               => \E n \in NamesOfText(tsIn.text) :
                      tsOut = Singleton(IF n = "errDiskStale" THEN "errDiskNotFound" ELSE n)
        /\ (tsIn.kind = "plain" /\ NamesOfText(tsIn.text) = {} /\ ~NetworkText(tsIn.text))
               => tsOut = tsIn

C27_Witness ==
    /\ tspc = "back"
    /\ tsIn = [kind |-> "plain", text |-> <<ErrorText["errDiskStale"]>>]
    /\ tsOut = Singleton("errDiskNotFound")
    /\ tsBack = Singleton("errDiskNotFound")

\* C28: NSScanner has closed updates exactly once when it has returned and not
\* before, never sends on the closed updates, and once ctx is cancelled it
\* returns even when nobody receives from updates.
C28_SinkClosedOnce ==
    /\ [](/\ scClosed = (IF scpc = "returned" THEN 1 ELSE 0)
          /\ ~scLate)
    /\ (scCtxDone ~> scpc = "returned")

C28_Witness ==
    /\ scpc = "returned"
    /\ scCtxDone
    /\ scN > scSent
    /\ scClosed = 1

\* C29: NSScanner returns no error only when the final cache was decoded
\* completely; a stream that ends after the "no more updates" flag and before
\* the cache is returned as an error.
C29_EarlyEndIsError ==
    (scpc = "returned" /\ scRet.err = "nil") => scRet.cache = "newCache"

\* C30: a POST upload that asks for SSE-C, in its form fields or in its request
\* headers, on a bucket with replication makes no PutObject and no fan-out
\* write, and is not answered OK.
C30_SSECReplicationRejected ==
    (pRepl /\ (pForm = "SSE-C" \/ pHdrSSEC)) => (pWrites = 0 /\ pResp # "OK")

\* the entries the dispatch loop of this run has handed to a worker
DispatchedEntries == { o \in Entries : o < next /\ Walked(o) /\ Encrypted(o) }

\* the name of the entry dispatched last, 0 when none was
LastDispatched ==
    IF DispatchedEntries = {} THEN 0
    ELSE Name(CHOOSE o \in DispatchedEntries : \A q \in DispatchedEntries : q <= o)

\* C31: whenever a run writes a checkpoint, the cursor it persists is the
\* object dispatched last in walk order.
C31_CursorIsLastDispatched ==
    [][ckpt' # ckpt => (Len(ckpt') = 1 /\ ckpt'[1].Object = LastDispatched')]_vars

\* C32: when a run is finalized and every object it dispatched was rotated
\* within its attempts, ObjectsFailed is 0 and the job is Complete, whatever
\* attempts failed before the successful one.
C32_RecoveredFailureForgiven ==
    (pc = "finalized" /\ \A o \in DispatchedEntries : rotated[o])
        => (ri.ObjectsFailed = 0 /\ ri.Complete)

C33_TimeRangeKept ==
    (fltpc = "done" /\ fltKept) =>
        /\ fltFilter.CreatedAfter # 0 => fltInfo.ModTime >= fltFilter.CreatedAfter
        /\ fltFilter.CreatedBefore # 0 => fltInfo.ModTime <= fltFilter.CreatedBefore

\* the object has a tag, a metadata entry, that a key/value of the list matches
ListSatisfied(kvs, entries) ==
    Len(kvs) = 0
        \/ \E i \in 1..Len(kvs) : \E e \in entries :
               /\ FoldKey(kvs[i].Key) = FoldKey(e.Key)
               /\ (kvs[i].Value = "*" \/ kvs[i].Value = e.Value)

\* C34: an object the filter keeps satisfies the Tags filter, the Metadata
\* filter and the KMSKeyID filter, each one that is configured; under a KMSKeyID
\* filter its KMS key ID without the ARN prefix is the filter's value.
C34_EveryFilterApplies ==
    (fltpc = "done" /\ fltKept) =>
        /\ ListSatisfied(fltFilter.Tags, TagMap(fltInfo.Tagging))
        /\ ListSatisfied(fltFilter.Metadata, MetaEntries(fltInfo))
        /\ fltFilter.KMSKeyID # ""
               => fltInfo.KmsID \in {fltFilter.KMSKeyID, "arn:aws:kms:key1"}

\* how often an event was sent for entry e
EventsOf(e) == Cardinality({ i \in DOMAIN fEvents : fEvents[i] = e })

\* C35: the loop that writes the records never reads eventArgsList past its
\* end, and when the handler has returned, one event was sent for each entry
\* that was written and none for an entry that failed.
C35_OneEventPerWrittenEntry ==
    /\ fpc # "panic"
    /\ fpc = "done" =>
           \A e \in 1 .. fN : EventsOf(e) = (IF fTask[e] = "ok" THEN 1 ELSE 0)

\* C36: once the context is cancelled between two fan-out batches, no further
\* batch is handed to fanOutPutObject.
C36_NoBatchAfterCancel ==
    [][(fCtxDone /\ fpc = "batch") => fCalls' = fCalls]_vars

\* the object of entry i was handed to DeleteObjects, which deleted it
DeleteSucceeded(i) ==
    \E k \in DOMAIN deleteList :
        /\ deleteList[k] = DirVersioned(dReq[i])
        /\ k \in DOMAIN dErrs
        /\ CountsAsDeleted(dErrs[k])

\* C37: in a multi-delete the transitioned-tier sweep is run only for entries
\* whose delete succeeded: none is run for an entry refused by retention
\* enforcement, failed in DeleteObjects, or never passed to DeleteObjects
C37_SweepOnlyDeleted == \A i \in swept : DeleteSucceeded(i)

\* C38: when the job's target encryption is sse-kms with a non-empty KMS
\* context, the context KeyRotate passes to rotateKey is the job's decoded
\* context, and the key id passed is the job's key without the ARN prefix
C38_JobContextPassed ==
    (krCall.called /\ krEnc.Type = "sse-kms" /\ krEnc.Context # "" /\ krKMS)
        => /\ krCall.newKeyContext.kv = DecodeContext(krEnc.Context).kv
           /\ krCall.newKeyID = TrimARN(krEnc.Key)

\* C39: KeyRotate decides on the ObjectInfo re-fetched under the namespace
\* lock: rotateKey is not reached for an object that, under the lock, is a
\* delete marker, has a pending purge, is not encrypted, or is SSE-KMS while
\* the job asks for sse-s3
C39_DecidedUnderLock ==
    krCall.called
        => /\ ~krObj.DeleteMarker
           /\ ~krObj.Purge
           /\ krObj.Enc # "none"
           /\ ~(krObj.Enc = "kms" /\ krEnc.Type = "sse-s3")

====
